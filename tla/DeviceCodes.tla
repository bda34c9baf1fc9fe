------------------------------ MODULE DeviceCodes ------------------------------
(* Codes that bind a device: device_code and device_authorize of the api. *)
EXTENDS Clock

CONSTANTS
  Code,      \* the numbers of eight digits
  Lifetime   \* of a code (10 min)

ASSUME CodesAssumption == Lifetime \in Nat

VARIABLES
  codes,   \* DEVICE_CODES: the code's time of expiry
  issued,  \* history: how often a code was issued,
  bound    \* ... and how often a device was bound by it

codeVars == <<codes, issued, bound>>

CodesInit ==
  /\ codes = <<>>
  /\ issued = [c \in Code |-> 0] /\ bound = [c \in Code |-> 0]

\* A random code, perhaps one that is out already: its expiry is replaced.
IssueCode ==
  /\ \E c \in Code :
       /\ codes' = [k \in DOMAIN codes \cup {c} |-> IF k = c THEN now + Lifetime ELSE codes[k]]
       /\ issued' = [issued EXCEPT ![c] = @ + 1]
  /\ UNCHANGED bound

Valid(c) == c \in DOMAIN codes /\ codes[c] > now

\* Mutant: a code that was used stays.
AuthorizeAgain(c) ==
  /\ Valid(c)
  /\ bound' = [bound EXCEPT ![c] = @ + 1]
  /\ UNCHANGED <<codes, issued>>

\* A code binds once, before it expires; any other request is answered "expired",
\* and leaves the code where it is.
Authorize(c) ==
  /\ Valid(c)
  /\ bound' = [bound EXCEPT ![c] = @ + 1]
  /\ codes' = [k \in DOMAIN codes \ {c} |-> codes[k]]
  /\ UNCHANGED issued

CodesRestart == codes' = <<>> /\ UNCHANGED <<issued, bound>>

-----------------------------------------------------------------------------
(* Properties *)

CodesTypeOK ==
  /\ DOMAIN codes \subseteq Code /\ \A c \in DOMAIN codes : codes[c] \in Nat
  /\ issued \in [Code -> Nat] /\ bound \in [Code -> Nat]

Outstanding(c) == IF c \in DOMAIN codes THEN 1 ELSE 0

\* A code binds no more devices than it was issued for, though it may be drawn again
\* while it is out, after it was used, or after a restart forgot it.
BoundOnce == \A c \in Code : bound[c] + Outstanding(c) <= issued[c]
=============================================================================
