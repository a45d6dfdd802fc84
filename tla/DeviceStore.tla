----------------------------- MODULE DeviceStore -----------------------------
(***************************************************************************)
(* The host's database of devices (storage.py).  Daemon and command line     *)
(* open it in two processes; every operation that writes is one transaction, *)
(* opened by its first DELETE, so that each is one step here.  A transaction *)
(* that raises PairingError is rolled back, its purge included.              *)
(*                                                                         *)
(* Time is the age of a row: the time since the request, or since the        *)
(* approval once there is one.                                              *)
(***************************************************************************)
EXTENDS Naturals, FiniteSets

CONSTANTS
    Devices,       \* device_id
    Codes,         \* pairing codes
    Tokens,        \* what secrets.token_urlsafe may return
    None,          \* a model value: no row, no token, no code
    PairingTtl,    \* PAIRING_TTL_SECONDS
    ApprovalTtl    \* APPROVAL_TTL_SECONDS

ASSUME StoreAssumption ==
    /\ PairingTtl \in Nat /\ ApprovalTtl \in Nat
    /\ None \notin Tokens /\ None \notin Codes /\ None \notin Devices

VARIABLES
    devices,       \* table devices: the token of each paired device
    pending        \* table pending_pairings

store == <<devices, pending>>

Ages == 0 .. PairingTtl + ApprovalTtl + 1
Request == [code : Codes, token : Tokens \cup {None}, age : Ages]

StoreInit ==
    /\ devices = [d \in Devices |-> None]
    /\ pending = [d \in Devices |-> None]

Expired(p) == p.age > (IF p.token = None THEN PairingTtl ELSE ApprovalTtl)

(* What _purge_locked leaves. *)
Purged ==
    [d \in Devices |-> IF pending[d] # None /\ Expired(pending[d]) THEN None ELSE pending[d]]

(* A slip: the upsert keeps the columns of the approval. *)
NewRequestKeepsApproval(d, c) ==
    [code |-> c, token |-> IF pending[d] = None THEN None ELSE pending[d].token, age |-> 0]
(* A slip: INSERT OR IGNORE. *)
NewRequestIgnored(d, c) ==
    IF Purged[d] # None THEN Purged[d] ELSE [code |-> c, token |-> None, age |-> 0]
NewRequest(d, c) == [code |-> c, token |-> None, age |-> 0]

(* A request with the code that is pending already changes nothing but the   *)
(* name; any other one replaces it, an uncollected approval included.        *)
RequestPairing(d, c) ==
    /\ pending' = IF Purged[d] # None /\ Purged[d].code = c THEN Purged
                  ELSE [Purged EXCEPT ![d] = NewRequest(d, c)]
    /\ UNCHANGED devices

Matching(c) == {d \in Devices : Purged[d] # None /\ Purged[d].token = None /\ Purged[d].code = c}

(* A slip: the first of several. *)
ApproveAny(d, c, token) ==
    /\ d \in Matching(c)
    /\ devices' = [devices EXCEPT ![d] = token]
    /\ pending' = [Purged EXCEPT ![d] = [code |-> c, token |-> token, age |-> 0]]

(* Approval needs exactly one request with the code; the token is valid from *)
(* now on, and takes the place of the device's old one.                      *)
ApprovePairing(d, c, token) ==
    /\ Matching(c) = {d}
    /\ devices' = [devices EXCEPT ![d] = token]
    /\ pending' = [Purged EXCEPT ![d] = [code |-> c, token |-> token, age |-> 0]]

Known(d, c) == Purged[d] # None /\ Purged[d].code = c

(* A slip: the row is kept, without its token. *)
KeepsRow(d) == [Purged EXCEPT ![d].token = None]
AfterCollection(d) == [Purged EXCEPT ![d] = None]

(* consume_approval: nothing to collect yet, or the token, once. *)
NotApproved(d, c) ==
    /\ Known(d, c) /\ Purged[d].token = None
    /\ pending' = Purged
    /\ UNCHANGED devices
ConsumeApproval(d, c) ==
    /\ Known(d, c) /\ Purged[d].token # None
    /\ pending' = AfterCollection(d)
    /\ UNCHANGED devices

ListPending == pending' = Purged /\ UNCHANGED devices

(* Revocation leaves a request, approved or not, where it is. *)
Revoke(d) == devices' = [devices EXCEPT ![d] = None] /\ UNCHANGED pending

(* A second passes; rows past every limit do not get older. *)
RowsAge ==
    /\ pending' = [d \in Devices |->
                     IF pending[d] = None THEN None
                     ELSE [pending[d] EXCEPT !.age = IF @ < PairingTtl + ApprovalTtl + 1 THEN @ + 1 ELSE @]]
    /\ UNCHANGED devices
=============================================================================
