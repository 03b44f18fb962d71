----------------------- MODULE CodegenHandshake_proofs -----------------------
(***************************************************************************)
(* Proofs about CodegenHandshake, for any number of callers.  What carries *)
(* them is mutual exclusion of the patched window: whoever is inside holds *)
(* the lock, and has patched the SDK's own method and nothing else.        *)
(***************************************************************************)
EXTENDS CodegenHandshake, TLAPS

(* The window belongs to the holder of the lock. *)
Exclusive == \A c \in Callers : pc[c] \in Window <=> lock = c

(* Outside of the window the SDK's method is in place; inside it, the      *)
(* holder's, which calls the SDK's and fills the holder's own holder.      *)
Patched ==
  /\ lock = Nobody => method = Sdk
  /\ \A c \in Callers : lock = c => /\ method = c /\ original[c] = Sdk
                                    /\ fills[c] = {c}

(* The invariant that is inductive. *)
IInv == TypeOK /\ Exclusive /\ Patched /\ CapturesOwn

LEMMA InitIInv == Init => IInv
  BY HandshakeAssumption
     DEF Init, IInv, TypeOK, Exclusive, Patched, CapturesOwn, Window

(* No action takes a variable out of its type. *)
LEMMA NextTypeOK == TypeOK /\ [Next]_vars => TypeOK'
<1> SUFFICES ASSUME TypeOK, [Next]_vars PROVE TypeOK'
  OBVIOUS
<1> USE DEF TypeOK
<1>1. CASE UNCHANGED vars
  BY <1>1 DEF vars
<1>2. CASE Next
  <2> PICK c \in Callers :
        \/ Patch(c) \/ CallInitialize(c) \/ Initialized(c) \/ Listed(c)
        \/ Fails(c) \/ CancelWaiting(c) \/ Leave(c)
    BY <1>2 DEF Next
  <2>1. CASE Patch(c)
    <3>1. FilledBy(method) \in SUBSET Callers
      BY DEF FilledBy
    <3>2. QED BY <2>1, <3>1 DEF Patch, Goto, Window
  <2>2. CASE CallInitialize(c)
    <3>1. FilledBy(method) \in SUBSET Callers
      BY DEF FilledBy
    <3>2. QED BY <2>2, <3>1 DEF CallInitialize, Goto, Window
  <2>3. CASE Initialized(c)
    <3>1. holder' \in [Callers -> Callers \union {Nobody}]
      BY <2>3 DEF Initialized
    <3>2. info' \in [Callers -> Callers \union {Nobody}]
      BY <2>3, <3>1 DEF Initialized
    <3>3. pc' \in [Callers -> {"waiting"} \union Window \union Ended]
      BY <2>3 DEF Initialized, Goto, Window
    <3>4. QED BY <2>3, <3>1, <3>2, <3>3 DEF Initialized
  <2>4. CASE Listed(c)
    BY <2>4 DEF Listed, Goto, Window
  <2>5. CASE Fails(c)
    BY <2>5 DEF Fails, Goto, Window
  <2>6. CASE CancelWaiting(c)
    BY <2>6 DEF CancelWaiting, Goto, Ended
  <2>7. CASE Leave(c)
    BY <2>7 DEF Leave, Restore, Unlock, Goto, Ended
  <2>8. QED BY <2>1, <2>2, <2>3, <2>4, <2>5, <2>6, <2>7
<1>3. QED BY <1>1, <1>2

(* The lock keeps everybody else out of the window. *)
LEMMA NextExclusive == TypeOK /\ Exclusive /\ [Next]_vars => Exclusive'
<1> SUFFICES ASSUME TypeOK, Exclusive, [Next]_vars PROVE Exclusive'
  OBVIOUS
<1> USE HandshakeAssumption DEF Exclusive, Window
<1>1. CASE UNCHANGED vars
  BY <1>1 DEF vars
<1>2. CASE Next
  <2> PICK c \in Callers :
        \/ Patch(c) \/ CallInitialize(c) \/ Initialized(c) \/ Listed(c)
        \/ Fails(c) \/ CancelWaiting(c) \/ Leave(c)
    BY <1>2 DEF Next
  <2>0. pc \in [Callers -> {"waiting"} \union Window \union Ended]
    BY DEF TypeOK
  <2>1. CASE Patch(c)
    BY <2>0, <2>1 DEF Patch, LockFree, Goto
  <2>2. CASE CallInitialize(c)
    BY <2>0, <2>2 DEF CallInitialize, Goto
  <2>3. CASE Initialized(c)
    <3>1. lock = c /\ lock' = lock
      BY <2>3 DEF Initialized
    <3>2. \A d \in Callers \ {c} : pc'[d] = pc[d]
      BY <2>0, <2>3 DEF Initialized, Goto
    <3>3. pc'[c] \in {"unwinding", "listing"}
      BY <2>0, <2>3 DEF Initialized, Goto
    <3>4. QED BY <3>1, <3>2, <3>3
  <2>4. CASE Listed(c)
    BY <2>0, <2>4 DEF Listed, Goto
  <2>5. CASE Fails(c)
    BY <2>0, <2>5 DEF Fails, Goto
  <2>6. CASE CancelWaiting(c)
    BY <2>0, <2>6 DEF CancelWaiting, Goto
  <2>7. CASE Leave(c)
    BY <2>0, <2>7 DEF Leave, Unlock, Goto, Ended
  <2>8. QED BY <2>1, <2>2, <2>3, <2>4, <2>5, <2>6, <2>7
<1>3. QED BY <1>1, <1>2

(* Only the holder patches and restores, so what it saved is the SDK's. *)
LEMMA NextPatched == TypeOK /\ Exclusive /\ Patched /\ [Next]_vars => Patched'
<1> SUFFICES ASSUME TypeOK, Exclusive, Patched, [Next]_vars PROVE Patched'
  OBVIOUS
<1> USE HandshakeAssumption DEF Patched
<1>1. CASE UNCHANGED vars
  BY <1>1 DEF vars
<1>2. CASE Next
  <2> PICK c \in Callers :
        \/ Patch(c) \/ CallInitialize(c) \/ Initialized(c) \/ Listed(c)
        \/ Fails(c) \/ CancelWaiting(c) \/ Leave(c)
    BY <1>2 DEF Next
  <2>1. CASE Patch(c)
    <3>1. method = Sdk /\ lock' = c /\ method' = c
      BY <2>1 DEF Patch, LockFree
    <3>2. original'[c] = Sdk
      BY <2>1, <3>1 DEF Patch, TypeOK
    <3>3. fills'[c] = {c}
      BY <2>1, <3>1 DEF Patch, TypeOK, FilledBy
    <3>4. QED BY <3>1, <3>2, <3>3
  <2>2. CASE CallInitialize(c)
    BY <2>2 DEF CallInitialize
  <2>3. CASE Initialized(c)
    BY <2>3 DEF Initialized
  <2>4. CASE Listed(c)
    BY <2>4 DEF Listed
  <2>5. CASE Fails(c)
    BY <2>5 DEF Fails
  <2>6. CASE CancelWaiting(c)
    BY <2>6 DEF CancelWaiting
  <2>7. CASE Leave(c)
    <3>1. lock = c
      BY <2>7 DEF Leave, Exclusive, Window
    <3>2. QED BY <2>7, <3>1 DEF Leave, Restore, Unlock
  <2>8. QED BY <2>1, <2>2, <2>3, <2>4, <2>5, <2>6, <2>7
<1>3. QED BY <1>1, <1>2

(* The method that is called fills the holder of the one who calls it. *)
LEMMA NextCapturesOwn == IInv /\ [Next]_vars => CapturesOwn'
<1> SUFFICES ASSUME IInv, [Next]_vars PROVE CapturesOwn'
  OBVIOUS
<1> USE HandshakeAssumption DEF CapturesOwn
<1>1. CASE UNCHANGED vars
  BY <1>1 DEF vars, IInv
<1>2. CASE Next
  <2> PICK c \in Callers :
        \/ Patch(c) \/ CallInitialize(c) \/ Initialized(c) \/ Listed(c)
        \/ Fails(c) \/ CancelWaiting(c) \/ Leave(c)
    BY <1>2 DEF Next
  <2>0. /\ CapturesOwn
        /\ pc \in [Callers -> {"waiting"} \union Window \union Ended]
        /\ info \in [Callers -> Callers \union {Nobody}]
        /\ calling \in [Callers -> SUBSET Callers]
    BY DEF IInv, TypeOK
  <2>1. CASE Patch(c)
    BY <2>0, <2>1 DEF Patch, Goto
  <2>2. CASE CallInitialize(c)
    <3>1. FilledBy(method) = {c}
      BY <2>2 DEF CallInitialize, IInv, Exclusive, Patched, Window, FilledBy
    <3>2. QED BY <2>0, <2>2, <3>1 DEF CallInitialize, Goto
  <2>3. CASE Initialized(c)
    <3>1. holder'[c] = c
      BY <2>0, <2>3 DEF Initialized
    <3>2. info'[c] = c /\ \A d \in Callers \ {c} : info'[d] = info[d]
      BY <2>0, <2>3, <3>1 DEF Initialized
    <3>3. pc'[c] = "listing" /\ \A d \in Callers \ {c} : pc'[d] = pc[d]
      BY <2>0, <2>3, <3>1 DEF Initialized, Goto
    <3>4. calling' = calling
      BY <2>3 DEF Initialized
    <3>5. QED BY <2>0, <3>2, <3>3, <3>4
  <2>4. CASE Listed(c)
    BY <2>0, <2>4 DEF Listed, Goto
  <2>5. CASE Fails(c)
    BY <2>0, <2>5 DEF Fails, Goto
  <2>6. CASE CancelWaiting(c)
    BY <2>0, <2>6 DEF CancelWaiting, Goto
  <2>7. CASE Leave(c)
    BY <2>0, <2>7 DEF Leave, Goto
  <2>8. QED BY <2>1, <2>2, <2>3, <2>4, <2>5, <2>6, <2>7
<1>3. QED BY <1>1, <1>2

LEMMA Invariance == Spec => []IInv
<1>1. Init => IInv
  BY InitIInv
<1>2. IInv /\ [Next]_vars => IInv'
  BY NextTypeOK, NextExclusive, NextPatched, NextCapturesOwn DEF IInv
<1>3. QED BY <1>1, <1>2, PTL DEF Spec

(* For any number of concurrent handshakes, every variable keeps its type: *)
(* in particular ClientSession.initialize is always a method of somebody's.*)
THEOREM TypeCorrect == Spec => []TypeOK
<1>1. IInv => TypeOK
  BY DEF IInv
<1>2. QED BY Invariance, <1>1, PTL

(* For any number of concurrent handshakes, each that returns has the      *)
(* answer of its own server, and no answer is missed.                      *)
THEOREM EachItsOwn == Spec => []CapturesOwn
<1>1. IInv => CapturesOwn
  BY DEF IInv
<1>2. QED BY Invariance, <1>1, PTL

(* Whatever failed or was cancelled, the class is as the SDK made it when  *)
(* no handshake is under way.                                              *)
THEOREM PatchAlwaysUndone == Spec => []PatchUndone
<1>1. IInv => PatchUndone
  BY HandshakeAssumption DEF IInv, TypeOK, Exclusive, Patched, PatchUndone
<1>2. QED BY Invariance, <1>1, PTL
=============================================================================
