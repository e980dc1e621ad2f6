---------------------------- MODULE ProofRuntime ----------------------------
(***************************************************************************)
(* The proof runtime of the accounts: loadArtifacts in                     *)
(* runtime/accounting/artifacts.mjs and the runtime in runtime.mjs that    *)
(* verifies and proves with what it loaded.                                *)
(*                                                                         *)
(* Only the manifest's digest is pinned by the application; its bytes and  *)
(* those of the artifacts are buffers of a provider, who may change them   *)
(* while a digest is awaited.  Contents are numbers and their own digests: *)
(* the manifest `Pin' lists for each artifact its content 1; a size may    *)
(* differ from what the manifest says.  Callers of the runtime overlap;    *)
(* the worker that node-verifier.mjs runs has a single one.                *)
(***************************************************************************)
EXTENDS Naturals, FiniteSets, FiniteSetsExt

CONSTANTS
    Names,          \* the artifacts, in the order they are read: 1 .. n
    Contents,       \* what a buffer may hold: 1 is what the manifest lists
    SizeOf,         \* content -> size
    maxTotalBytes,
    Callers,
    MaxChanges      \* bound on the provider's changes

(* Assumed wherever the module is instantiated: resourceLimits.           *)
RuntimeConstants ==
    /\ \E n \in Names : n \in Nat \ {0} /\ Names = 1 .. n
    /\ 1 \in Contents /\ \A content \in Contents : SizeOf[content] \in Nat
    /\ maxTotalBytes \in Nat

VARIABLES
    buffers,        \* 0 (the manifest) or artifact -> what the provider holds
    changes,
    snapshot,       \* 0 or artifact -> {} or {content}: what is hashed and used
    reading,        \* the artifact whose digest is awaited, 0 for the manifest
    total,
    phase,          \* "loading", "starting", "ready", "failed" or "destroyed"
    api,            \* "none", "open" or "closed": the backend and its worker
    calls           \* caller -> "idle", "running"

runtimeVars == <<buffers, changes, snapshot, reading, total, phase, api, calls>>

Files == {0} \cup Names
Last == Max(Names)

Init ==
    /\ buffers = [f \in Files |-> 1] /\ changes = 0
    /\ snapshot = [f \in Files |-> {}]
    /\ reading = 0 /\ total = 0
    /\ phase = "loading" /\ api = "none"
    /\ calls = [c \in Callers |-> "idle"]
-----------------------------------------------------------------------------
(* The provider retains its buffers. *)
Change(f, content) ==
    /\ changes < MaxChanges /\ buffers[f] # content
    /\ buffers' = [buffers EXCEPT ![f] = content]
    /\ changes' = changes + 1
    /\ UNCHANGED <<snapshot, reading, total, phase, api, calls>>

(* A buffer is copied when it is received, and its size counted; then its  *)
(* digest is awaited.                                                      *)
Receive ==
    /\ phase = "loading" /\ reading \in Files /\ snapshot[reading] = {}
    /\ snapshot' = [snapshot EXCEPT ![reading] = {buffers[reading]}]
    /\ total' = total + SizeOf[buffers[reading]]
    /\ UNCHANGED <<buffers, changes, reading, phase, api, calls>>

(* A download that fails or is longer than allowed is cancelled; a file    *)
(* that grew or shrank while it was read is refused.                       *)
FetchFails ==
    /\ phase = "loading" /\ snapshot[reading] = {}
    /\ phase' = "failed"
    /\ UNCHANGED <<buffers, changes, snapshot, reading, total, api, calls>>

FileChanged ==
    /\ phase = "loading" /\ snapshot[reading] = {} /\ changes > 0
    /\ phase' = "failed"
    /\ UNCHANGED <<buffers, changes, snapshot, reading, total, api, calls>>

(* The digest of the copy, and the copy is what is parsed. *)
Shared(f) == {buffers[f]}
Private(f) == snapshot[f]
Digested(f) == snapshot[f] = {1} /\ total <= maxTotalBytes
Digest ==
    /\ phase = "loading" /\ reading \in Files /\ snapshot[reading] # {}
    /\ IF Digested(reading)
       THEN /\ snapshot' = [snapshot EXCEPT ![reading] = Private(reading)]
            /\ reading' = reading + 1
            /\ phase' = IF reading = Last THEN "starting" ELSE "loading"
       ELSE phase' = "failed" /\ UNCHANGED <<snapshot, reading>>
    /\ UNCHANGED <<buffers, changes, total, api, calls>>

(* The backend is created from the copies, in a browser through an address *)
(* that is revoked at once.                                                *)
Start(ok) ==
    /\ phase = "starting" /\ api = "none"
    /\ IF ok THEN api' = "open" /\ UNCHANGED phase
       ELSE phase' = "failed" /\ UNCHANGED api
    /\ UNCHANGED <<buffers, changes, snapshot, reading, total, calls>>

(* It is destroyed if the rest of the construction fails. *)
Abandoned == "open"
Destroyed == "closed"

Started(ok) ==
    /\ phase = "starting" /\ api = "open"
    /\ IF ok THEN phase' = "ready" /\ UNCHANGED api
       ELSE phase' = "failed" /\ api' = Destroyed
    /\ UNCHANGED <<buffers, changes, snapshot, reading, total, calls>>

(* exclusive: verify, verifyPeer, prove and provePeer.  What a caller does *)
(* with the hashes it was given, on the same backend, is left out: nothing *)
(* keeps it apart from these calls, or from destroy.                       *)
Running == {c \in Callers : calls[c] = "running"}
Anyway == TRUE
Free == Running = {}
Begin(c) ==
    /\ calls[c] = "idle"
    /\ phase = "ready" /\ Free
    /\ calls' = [calls EXCEPT ![c] = "running"]
    /\ UNCHANGED <<buffers, changes, snapshot, reading, total, phase, api>>

Finish(c) ==
    /\ calls[c] = "running"
    /\ calls' = [calls EXCEPT ![c] = "idle"]
    /\ UNCHANGED <<buffers, changes, snapshot, reading, total, phase, api>>

(* destroy: refused while it is busy, and once is enough. *)
Destroy ==
    /\ phase = "ready" /\ Free
    /\ phase' = "destroyed" /\ api' = "closed"
    /\ UNCHANGED <<buffers, changes, snapshot, reading, total, calls>>

Next ==
    \/ \E f \in Files, content \in Contents : Change(f, content)
    \/ Receive
    \/ Digest
    \/ FetchFails
    \/ FileChanged
    \/ \E ok \in BOOLEAN : Start(ok) \/ Started(ok)
    \/ \E c \in Callers : Begin(c) \/ Finish(c)
    \/ Destroy

Spec == Init /\ [][Next]_runtimeVars
-----------------------------------------------------------------------------
(* What a backend is made of is what the release pinned, whatever the      *)
(* provider did to its buffers meanwhile and within the memory allowed     *)
(* (artifacts.mjs:16-42).                                                  *)
UsesPinned == api = "open" => /\ \A f \in Files : snapshot[f] = {1}
                              /\ total <= maxTotalBytes

(* One operation at a time uses the backend, and none one that is closed   *)
(* or that nobody will close (runtime.mjs:60-114).                         *)
BackendHeld ==
    /\ Cardinality(Running) <= 1
    /\ Running # {} => api = "open"
    /\ phase \in {"failed", "destroyed"} => api # "open"
=============================================================================
