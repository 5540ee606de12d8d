---------------------------- MODULE TokenCache ----------------------------
(***************************************************************************)
(* preprocess/tokencache.go: tokens of unchanged contents are shared among *)
(* goroutines.  The entry is looked up under the read lock, the content is *)
(* tokenized with no lock held, and the entry is looked up again and       *)
(* stored under the write lock.  A critical section is one step: it does   *)
(* not block.  The hash of a content is modelled by the content (SHA-256   *)
(* is taken to have no collision), a token slice by its content and its    *)
(* identity, which is free again when nothing holds the slice.             *)
(***************************************************************************)

CONSTANTS Callers, Uris, Contents, Ids, Empty,
          Cancellable    \* callers that pass a context which may be cancelled

Slices == [content : Contents, id : Ids]

Calls == [uri : Uris, content : Contents]

ASSUME EmptyAssumption == Empty \notin Slices
ASSUME CancellableAssumption == Cancellable \subseteq Callers

VARIABLES
    entries,   \* TokenCache.entries: uri -> [hash, tokens]
    pc,        \* caller -> where it is in tokenizeContext
    call,      \* caller -> its parameters uri and content
    tokens     \* caller -> its local variable tokens

vars == <<entries, pc, call, tokens>>

NoEntry == [hash |-> Empty, tokens |-> Empty]

Entry(c) == entries[call[c].uri]

Goto(c, label) == pc' = [pc EXCEPT ![c] = label]

Init ==
    /\ entries = [u \in Uris |-> NoEntry]
    /\ pc = [c \in Callers |-> "idle"]
    /\ call \in [Callers -> Calls]
    /\ tokens = [c \in Callers |-> Empty]

Enter(c) ==
    /\ pc[c] = "idle"
    /\ \E k \in Calls : call' = [call EXCEPT ![c] = k]
    /\ Goto(c, "read")
    /\ UNCHANGED <<entries, tokens>>

HitByUri(c) == Entry(c) # NoEntry          \* mutant: the hash is not compared
Hit(c) == Entry(c) # NoEntry /\ Entry(c).hash = call[c].content

ReadOnly(c) ==                             \* mutant: a hit falls through
    /\ pc[c] = "read"
    /\ Goto(c, IF Hit(c) THEN "store" ELSE "tokenize")
    /\ tokens' = [tokens EXCEPT ![c] = IF Hit(c) THEN Entry(c).tokens ELSE @]
    /\ UNCHANGED <<entries, call>>

\* The lookup under the read lock.
Read(c) ==
    /\ pc[c] = "read"
    /\ IF Hit(c)
       THEN tokens' = [tokens EXCEPT ![c] = Entry(c).tokens] /\ Goto(c, "done")
       ELSE Goto(c, "tokenize") /\ UNCHANGED tokens
    /\ UNCHANGED <<entries, call>>

\* Nothing holds the slice: it may be the one just allocated.
Unused(t) ==
    /\ \A u \in Uris : entries[u].tokens # t
    /\ \A c \in Callers : tokens[c] # t

Tokenize(c) ==
    /\ pc[c] = "tokenize"
    /\ \E t \in Slices :
          /\ t.content = call[c].content
          /\ Unused(t)
          /\ tokens' = [tokens EXCEPT ![c] = t]
    /\ Goto(c, "store")
    /\ UNCHANGED <<entries, call>>

\* TokenizeContext returns the error of the context.
Cancelled(c) ==
    /\ pc[c] = "tokenize" /\ c \in Cancellable
    /\ Goto(c, "failed")
    /\ UNCHANGED <<entries, call, tokens>>

StoredNever(c) == FALSE                    \* mutant: no second look
Stored(c) == Entry(c).tokens # Empty /\ Entry(c).hash = call[c].content

StaleEntry(c) == [Entry(c) EXCEPT !.hash = call[c].content]  \* mutant
NewEntry(c) == [hash |-> call[c].content, tokens |-> tokens[c]]

\* The second lookup and the store, under the write lock.
Store(c) ==
    /\ pc[c] = "store"
    /\ IF Stored(c)
       THEN /\ tokens' = [tokens EXCEPT ![c] = Entry(c).tokens]
            /\ UNCHANGED entries
       ELSE /\ entries' = [entries EXCEPT ![call[c].uri] = NewEntry(c)]
            /\ UNCHANGED tokens
    /\ Goto(c, "done")
    /\ UNCHANGED call

\* The caller drops what it got.
Leave(c) ==
    /\ pc[c] \in {"done", "failed"}
    /\ Goto(c, "idle")
    /\ tokens' = [tokens EXCEPT ![c] = Empty]
    /\ UNCHANGED <<entries, call>>

Next == \E c \in Callers :
    Enter(c) \/ Read(c) \/ Tokenize(c) \/ Cancelled(c) \/ Store(c) \/ Leave(c)

Spec == Init /\ [][Next]_vars

---------------------------------------------------------------------------
(* What the cache promises. *)

Entries == [hash : Contents, tokens : Slices]

Labels == {"idle", "read", "tokenize", "store", "done", "failed"}

\* An entry's hash is the hash of the content its tokens were made from, and
\* a caller holds tokens exactly from the moment it made or found them, the
\* tokens of its own content (tokenCacheEntry, tokenizeContext).
TypeOK ==
    /\ entries \in [Uris -> Entries \cup {NoEntry}]
    /\ \A u \in Uris : entries[u] # NoEntry =>
           entries[u].hash = entries[u].tokens.content
    /\ pc \in [Callers -> Labels]
    /\ call \in [Callers -> Calls]
    /\ tokens \in [Callers -> Slices \cup {Empty}]
    /\ \A c \in Callers : tokens[c] # Empty <=> pc[c] \in {"store", "done"}

\* A caller gets the tokens of the content it passed, whatever the others
\* cached for the same uri while it looked up, tokenized and stored
\* (tokenizeContext compares the hash twice).
OwnContent ==
    \A c \in Callers : pc[c] = "done" => tokens[c].content = call[c].content

\* Tokens made but not yet stored are the caller's alone.
PrivateUntilStored ==
    \A c \in Callers : pc[c] = "store" =>
        /\ tokens[c].content = call[c].content
        /\ \A u \in Uris : entries[u].tokens # tokens[c]
        /\ \A d \in Callers \ {c} : tokens[d] # tokens[c]

Service == INSTANCE TokenService WITH
    cached <- [u \in Uris |-> entries[u].tokens],
    status <- [c \in Callers |->
                  IF pc[c] \in {"read", "tokenize", "store"} THEN "calling"
                  ELSE pc[c]],
    answer <- [c \in Callers |-> IF pc[c] = "done" THEN tokens[c] ELSE Empty]

\* Each call takes effect in one step, at the lookup that finds its content
\* or at the store: callers that race with one content share one slice, and
\* only a changed content replaces an entry (NewTokenCache, tokenizeContext).
ServiceSpec == Service!Spec

============================================================================
