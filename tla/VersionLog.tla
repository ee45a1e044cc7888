----------------------------- MODULE VersionLog -----------------------------
(* What PipelineStore keeps of its promise for one path: every version     *)
(* ever written is kept; a reader is given the last one written, or, while *)
(* a write is under way or was cut short, none - never an older one.       *)
CONSTANTS Contents, None

VARIABLES
  kept,     \* the versions on disk
  latest    \* the version a reader is given; None when it is refused

Init == kept = {} /\ latest = None

Write(content) == kept' = kept \cup {content} /\ latest' = content

Withdraw == latest \in kept /\ latest' = None /\ UNCHANGED kept

Next == Withdraw \/ \E content \in Contents : Write(content)

Spec == Init /\ [][Next]_<<kept, latest>>
=============================================================================
