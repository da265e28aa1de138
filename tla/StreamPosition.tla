--------------------------- MODULE StreamPosition ---------------------------
(***************************************************************************)
(* What a terminal view is promised about the output stream: it shows one  *)
(* launch at a time, up to a position that the launch really produced, and *)
(* while it shows that launch the position only moves forward.  How chunks *)
(* and snapshots travel, are lost, repeated or overtaken is left out.      *)
(***************************************************************************)
EXTENDS Naturals, Sequences

CONSTANTS Revisions, MaxLaunches

VARIABLES
    launches,   (* the revision of each launch, in launch order                 *)
    produced,   (* how many chunks each launch has drawn                        *)
    open,       (* a view is attached                                           *)
    rev,        (* the revision it shows                                        *)
    position    (* how far into that launch's output it is                      *)

vars == <<launches, produced, open, rev, position>>
view == <<open, rev, position>>

Init ==
    /\ launches = <<>>
    /\ produced = [l \in 1..MaxLaunches |-> 0]
    /\ open = FALSE /\ rev = 0 /\ position = 0

Produce ==
    /\ \E l \in 1..Len(launches) : produced' = [produced EXCEPT ![l] = @ + 1]
    /\ UNCHANGED <<launches, view>>

Launch ==
    /\ \E r \in Revisions :
          /\ \A l \in 1..Len(launches) : launches[l] # r
          /\ launches' = Append(launches, r)
    /\ UNCHANGED <<produced, view>>

(* A new attachment starts before the beginning, whatever was shown before. *)
Attach ==
    /\ ~open /\ open'
    /\ rev' \in Revisions /\ position' = 0
    /\ UNCHANGED <<launches, produced>>

Detach ==
    /\ open /\ ~open' /\ rev' = 0 /\ position' = 0
    /\ UNCHANGED <<launches, produced>>

(* The view turns to a launch other than the one it asked for. *)
Adopt ==
    /\ open /\ open'
    /\ \E l \in 1..Len(launches) : rev' = launches[l]
    /\ rev' # rev /\ position' = 0
    /\ UNCHANGED <<launches, produced>>

Advance ==
    /\ open /\ open' /\ rev' = rev
    /\ \E l \in 1..Len(launches) :
          /\ launches[l] = rev
          /\ position' \in position..produced[l]
    /\ UNCHANGED <<launches, produced>>

Next == Produce \/ Launch \/ Attach \/ Detach \/ Adopt \/ Advance

Spec == Init /\ [][Next]_vars
=============================================================================
