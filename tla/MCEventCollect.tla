---------------------------- MODULE MCEventCollect ----------------------------
(***************************************************************************)
(* One spool file, a collect and a drain that may be cut short, in two     *)
(* casts drawn at the start and kept: two writers that let go of the file  *)
(* and open it again, and one writer that holds on to it.  The behaviours  *)
(* of CastSpec, the cast left out, are behaviours of FairSpec.             *)
(***************************************************************************)
EXTENDS EventCollect, TLC

CONSTANTS writer1, writer2, collect, drain

VARIABLE cast

Shared == "shared"
Held == "held"

Around ==
    cast = Held =>
        /\ \A w \in Writers \ {writer1} : open'[w] = 0
        /\ pen[writer1] = "writing" => pen' = pen

CastInit == Init /\ cast \in {Shared, Held}
CastNext == Next /\ Around /\ UNCHANGED cast
CastSpec == CastInit /\ [][CastNext]_<<vars, cast>> /\ Fairness

\* Over a writer that holds on to its file no event is lost: between passes,
\* one the sink has not accepted is past the offset the next pass will read
\* from, whatever pass was killed or refused before.
KeptWhileHeld == cast = Held => EventIsKept

\* What that rests on: nobody but the holder opens the file, and once the first
\* event was spooled the holder has its lock, so no pass deletes the file and it
\* holds every event in its place; every offset kept or in use was delivered.
Delivered(n) == n <= born /\ \A e \in 1..n : taken[e] > 0

HolderInv ==
    /\ \A w \in Writers \ {writer1} : open[w] = 0
    /\ writer1 \in Writers =>
          /\ pen[writer1] = "writing" => open[writer1] = inode
          /\ pen[writer1] = "opened" => inode \in {0, open[writer1]}
    /\ born > 0 => writer1 \in Writers /\ pen[writer1] = "writing"

InPlaceInv ==
    /\ Len(file) = born /\ \A i \in DOMAIN file : file[i] = i
    /\ \A e \in lake : taken[e] > 0
    /\ Delivered(ledger)
    /\ \A p \in Passes :
          /\ at[p] = "post" =>
                /\ upto[p] <= born
                /\ \A e \in 1..upto[p] : taken[e] > 0 \/ e \in page[p]
          /\ at[p] \in Locked \ {"read"} => Delivered(offset[p])

HeldInv == cast = Held => HolderInv /\ InPlaceInv

\* And each of its events reaches the sink, which pass ever is cut short.
SentWhileHeld == (cast = Held) => SpooledIsSent
==============================================================================
