----------------------------- MODULE MCAccounts -----------------------------
(***************************************************************************)
(* Two administrators and two users; ann owns the project lab, which she   *)
(* shares with bob, and uploads another.                                   *)
(***************************************************************************)
EXTENDS Accounts

CONSTANTS root, deputy, ann, bob, lab, extra

LabIsAnns == [p \in {lab} |-> ann]

Req(op, by, on) == [op |-> op, by |-> by, on |-> on]

Everyday == {Req("start", bob, lab), Req("upload", ann, extra),
             [op |-> "share", by |-> ann, on |-> lab, with |-> bob]}

\* ann is deleted while she and bob work.
Departure == {Req("start", ann, lab), Req("delete", root, ann)} \cup Everyday

\* So is bob, and two administrators turn on each other and on themselves.
Office == Departure \cup
  {[op |-> "unshare", by |-> ann, on |-> lab, with |-> bob],
   Req("delete", root, bob), Req("demote", root, root), Req("demote", deputy, root),
   Req("disable", root, deputy)}
=============================================================================
