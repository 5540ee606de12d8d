--------------------------- MODULE TokenService ---------------------------
(***************************************************************************)
(* What a token cache promises its concurrent callers: each call takes     *)
(* effect in one step, which answers with the cached tokens when they are  *)
(* those of the caller's content, and with new ones, now cached, when not. *)
(***************************************************************************)

CONSTANTS
    Callers,    \* goroutines
    Uris, Contents,
    Ids,        \* identities of token slices
    Empty       \* no entry, or no answer yet

Slices == [content : Contents, id : Ids]

Calls == [uri : Uris, content : Contents]

VARIABLES
    cached,     \* uri -> the tokens cached for it
    status,     \* caller -> "idle", "calling", "done" or "failed"
    call,       \* caller -> what it asks for
    answer      \* caller -> the tokens it got

vars == <<cached, status, call, answer>>

\* No entry and no other caller holds these tokens.
Unused(t) ==
    /\ \A u \in Uris : cached[u] # t
    /\ \A c \in Callers : answer[c] # t

Init ==
    /\ cached = [u \in Uris |-> Empty]
    /\ status = [c \in Callers |-> "idle"]
    /\ call \in [Callers -> Calls]
    /\ answer = [c \in Callers |-> Empty]

Begin(c) ==
    /\ status[c] = "idle"
    /\ status' = [status EXCEPT ![c] = "calling"]
    /\ \E k \in Calls : call' = [call EXCEPT ![c] = k]
    /\ UNCHANGED <<cached, answer>>

Reply(c, t) ==
    /\ status' = [status EXCEPT ![c] = "done"]
    /\ answer' = [answer EXCEPT ![c] = t]
    /\ UNCHANGED call

\* The content is the cached one: every such caller shares one slice.
Share(c) ==
    /\ status[c] = "calling"
    /\ cached[call[c].uri] # Empty
    /\ cached[call[c].uri].content = call[c].content
    /\ Reply(c, cached[call[c].uri])
    /\ UNCHANGED cached

\* There is no entry for the uri or its content is another one.
Replace(c) ==
    /\ status[c] = "calling"
    /\ cached[call[c].uri] # Empty =>
           cached[call[c].uri].content # call[c].content
    /\ \E t \in Slices :
          /\ t.content = call[c].content
          /\ Unused(t)
          /\ Reply(c, t)
          /\ cached' = [cached EXCEPT ![call[c].uri] = t]

\* The caller's context was cancelled: the cache does not change.
Fail(c) ==
    /\ status[c] = "calling"
    /\ status' = [status EXCEPT ![c] = "failed"]
    /\ UNCHANGED <<cached, call, answer>>

Finish(c) ==
    /\ status[c] \in {"done", "failed"}
    /\ status' = [status EXCEPT ![c] = "idle"]
    /\ answer' = [answer EXCEPT ![c] = Empty]
    /\ UNCHANGED <<cached, call>>

Next == \E c \in Callers :
    Begin(c) \/ Share(c) \/ Replace(c) \/ Fail(c) \/ Finish(c)

Spec == Init /\ [][Next]_vars

============================================================================
