------------------------------ MODULE SignIns ------------------------------
(***************************************************************************)
(* What logout and a change of password promise of a user's tokens, without *)
(* rows, devices, handlers or caches: the end of an epoch ends every token, *)
(* a token that starts in an ended epoch starts ended, and no ended token   *)
(* is ever valid again.  Sessions implements this.                          *)
(***************************************************************************)
EXTENDS Naturals, Sequences

VARIABLES
  epoch,    \* of the user
  signedIn, \* the epoch of the login behind each token, in the order of issue
  valid     \* the tokens that can be used

vars == <<epoch, signedIn, valid>>

Init == epoch = 0 /\ signedIn = <<>> /\ valid = {}

\* A login or a refresh may end other tokens, of its device or its own chain.
Issue(e) ==
  /\ signedIn' = Append(signedIn, e)
  /\ valid' \subseteq valid \cup {k \in {Len(signedIn) + 1} : e = epoch}
  /\ UNCHANGED epoch

End ==
  /\ valid' \subseteq valid
  /\ UNCHANGED <<epoch, signedIn>>

EndAll ==
  /\ epoch' = epoch + 1
  /\ valid' = {}
  /\ UNCHANGED signedIn

Next == End \/ EndAll \/ \E e \in 0..epoch : Issue(e)

Spec == Init /\ [][Next]_vars
=============================================================================
