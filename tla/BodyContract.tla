---------------------------- MODULE BodyContract ----------------------------
(***************************************************************************)
(* What a caller of httpclient may rely on about one response body: bytes  *)
(* arrive until the first terminal result, that result never changes, and  *)
(* it is io.EOF only if the whole body was handed out.  A body can be      *)
(* closed at any time; a read already under way may still bring bytes.     *)
(***************************************************************************)
EXTENDS Naturals

CONSTANTS Length,     \* bytes in the body
          Reasons     \* terminal results a read may report besides EOF

VARIABLES delivered,  \* bytes handed to the caller
          terminal,   \* "none", or what every later read reports
          closed      \* Close was called

vars == <<delivered, terminal, closed>>

Init == delivered = 0 /\ terminal = "none" /\ closed = FALSE

Deliver ==
  /\ terminal = "none"
  /\ delivered' \in delivered + 1 .. Length
  /\ UNCHANGED <<terminal, closed>>

End ==
  /\ terminal = "none"
  /\ \/ terminal' \in Reasons
     \/ terminal' = "eof" /\ delivered = Length
     \/ terminal' = "ErrBodyClosed" /\ closed
  /\ UNCHANGED <<delivered, closed>>

Close ==
  /\ closed' = TRUE
  /\ UNCHANGED <<delivered, terminal>>

Next == Deliver \/ End \/ Close

Spec == Init /\ [][Next]_vars
=============================================================================
