-------------------------- MODULE DocumentRegister --------------------------
(***************************************************************************)
(* What document control promises, without saying how: a register of the   *)
(* issues of documents.  An entry is made when a version is brought into   *)
(* force, carries three different signatories and is never changed or      *)
(* removed; at most one entry per document is not withdrawn.               *)
(***************************************************************************)
EXTENDS Naturals

CONSTANTS Users, Docs

VARIABLES
    issued,         \* the entries of the register
    withdrawn       \* versions that were in force and no longer are

Entry == [version  : Nat,
          document : Docs,
          author   : Users,
          reviewer : Users,
          approver : Users]

InForce(d) == {e \in issued : e.document = d /\ e.version \notin withdrawn}

Init == issued = {} /\ withdrawn = {}

Issue(e) ==
    /\ \A f \in issued : f.version # e.version
    /\ e.author # e.reviewer /\ e.approver \notin {e.author, e.reviewer}
    /\ issued' = issued \cup {e}
    /\ withdrawn' = withdrawn \cup {f.version : f \in InForce(e.document)}

Withdraw(e) ==
    /\ e \in InForce(e.document)
    /\ withdrawn' = withdrawn \cup {e.version}
    /\ UNCHANGED issued

Next ==
    \/ \E e \in issued' \ issued : e \in Entry /\ Issue(e)
    \/ \E e \in issued : Withdraw(e)

Spec == Init /\ [][Next]_<<issued, withdrawn>>

=============================================================================
