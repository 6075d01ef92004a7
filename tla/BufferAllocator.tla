--------------------------- MODULE BufferAllocator ---------------------------
(***************************************************************************)
(* What the send buffers promise to those who hold them: a buffer is given *)
(* bytes nobody else holds, keeps some of them when it is closed, and from *)
(* then on keeps them as they are until the last reference goes.           *)
(***************************************************************************)
CONSTANTS Buffers, Memory

VARIABLES
  state,  \* "free", "open" or "closed"
  bytes   \* what each buffer holds

vars == <<state, bytes>>

Init ==
  /\ state = [b \in Buffers |-> "free"]
  /\ bytes = [b \in Buffers |-> {}]

\* Only buffer b is touched; what it holds now is for the action to say.
Becomes(b, what) ==
  /\ state' = [state EXCEPT ![b] = what]
  /\ bytes' = [bytes EXCEPT ![b] = bytes'[b]]

Open(b) ==
  /\ state[b] = "free" /\ Becomes(b, "open")
  /\ bytes'[b] \subseteq Memory \ UNION {bytes[a] : a \in Buffers}

Close(b) ==
  /\ state[b] = "open" /\ Becomes(b, "closed")
  /\ bytes'[b] \subseteq bytes[b]

Release(b) ==
  /\ state[b] # "free" /\ Becomes(b, "free")
  /\ bytes'[b] = {}

Next == \E b \in Buffers : Open(b) \/ Close(b) \/ Release(b)

Spec == Init /\ [][Next]_vars

==============================================================================
