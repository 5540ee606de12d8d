------------------------- MODULE TokenCacheProofs -------------------------
(***************************************************************************)
(* For any number of callers, uris, contents and identities: the token     *)
(* cache answers every caller with the tokens of its content, and          *)
(* implements TokenService.                                                *)
(***************************************************************************)
EXTENDS TokenCache, TLAPS

Inv == TypeOK /\ OwnContent /\ PrivateUntilStored

Step(c) ==
    Enter(c) \/ Read(c) \/ Tokenize(c) \/ Cancelled(c) \/ Store(c) \/ Leave(c)

\* What the type invariant says of the entry a caller looks at: there is
\* none, or its hash is that of its tokens.
LEMMA EntryFacts ==
    ASSUME TypeOK, NEW c \in Callers
    PROVE  /\ call[c] \in Calls /\ call[c].uri \in Uris
           /\ call[c].content \in Contents
           /\ Entry(c) \in Entries \cup {NoEntry}
           /\ Entry(c) # NoEntry =>
                 /\ Entry(c) \in Entries
                 /\ Entry(c).tokens \in Slices /\ Entry(c).tokens # Empty
                 /\ Entry(c).hash = Entry(c).tokens.content
           /\ Entry(c) = NoEntry => Entry(c).tokens = Empty
  <1>1. call[c] \in Calls /\ call[c].uri \in Uris /\ call[c].content \in Contents
    BY DEF TypeOK, Calls
  <1>2. Entry(c) \in Entries \cup {NoEntry}
    BY <1>1 DEF TypeOK, Entry
  <1>3. Entry(c) # NoEntry => Entry(c).hash = Entry(c).tokens.content
    BY <1>1 DEF TypeOK, Entry
  <1>4. Entry(c) # NoEntry => Entry(c).tokens \in Slices
    BY <1>2 DEF Entries
  <1>5. Entry(c) = NoEntry => Entry(c).tokens = Empty
    BY DEF NoEntry
  <1> QED
    BY <1>1, <1>2, <1>3, <1>4, <1>5, EmptyAssumption

\* Every step of a caller keeps the types.
LEMMA TypeStep ==
    ASSUME TypeOK, PrivateUntilStored, NEW c \in Callers, Step(c)
    PROVE  TypeOK'
  <1>1. /\ entries \in [Uris -> Entries \cup {NoEntry}]
        /\ pc \in [Callers -> Labels] /\ call \in [Callers -> Calls]
        /\ tokens \in [Callers -> Slices \cup {Empty}]
        /\ \A d \in Callers : tokens[d] # Empty <=> pc[d] \in {"store", "done"}
        /\ \A u \in Uris : entries[u] # NoEntry =>
              entries[u].hash = entries[u].tokens.content
    BY DEF TypeOK
  <1>2. CASE Enter(c)
    BY <1>1, <1>2 DEF TypeOK, Enter, Goto, Labels
  <1>3. CASE Read(c)
    <2>1. CASE Hit(c)
      BY <1>1, <1>3, <2>1, EntryFacts DEF TypeOK, Read, Goto, Labels, Hit
    <2>2. CASE ~Hit(c)
      BY <1>1, <1>3, <2>2 DEF TypeOK, Read, Goto, Labels
    <2> QED
      BY <2>1, <2>2
  <1>4. CASE Tokenize(c)
    <2>1. PICK t \in Slices : tokens' = [tokens EXCEPT ![c] = t]
      BY <1>4 DEF Tokenize
    <2>2. pc' = [pc EXCEPT ![c] = "store"] /\ UNCHANGED <<entries, call>>
      BY <1>4 DEF Tokenize, Goto
    <2> QED
      BY <1>1, <2>1, <2>2, EmptyAssumption DEF TypeOK, Labels
  <1>5. CASE Cancelled(c)
    BY <1>1, <1>5 DEF TypeOK, Cancelled, Goto, Labels
  <1>6. CASE Store(c) /\ Stored(c)
    <2>1. Entry(c).tokens \in Slices /\ Entry(c).tokens # Empty
      BY <1>6, EntryFacts DEF Stored
    <2>2. /\ tokens' = [tokens EXCEPT ![c] = Entry(c).tokens]
          /\ pc' = [pc EXCEPT ![c] = "done"] /\ UNCHANGED <<entries, call>>
      BY <1>6 DEF Store, Goto
    <2> QED
      BY <1>1, <2>1, <2>2 DEF TypeOK, Labels
  <1>7. CASE Store(c) /\ ~Stored(c)
    <2> DEFINE uri == call[c].uri
    <2>1. pc[c] = "store" /\ tokens[c] \in Slices /\ tokens[c] # Empty
      BY <1>1, <1>7 DEF Store
    <2>2. uri \in Uris /\ call[c].content \in Contents
      BY EntryFacts
    <2>3. /\ entries' = [entries EXCEPT ![uri] = NewEntry(c)]
          /\ pc' = [pc EXCEPT ![c] = "done"] /\ UNCHANGED <<tokens, call>>
      BY <1>7 DEF Store, Goto
    <2>4. NewEntry(c) \in Entries
      BY <2>1, <2>2 DEF NewEntry, Entries
    <2>5. NewEntry(c).hash = NewEntry(c).tokens.content
      BY <2>1 DEF NewEntry, PrivateUntilStored
    <2>6. entries' \in [Uris -> Entries \cup {NoEntry}]
      BY <1>1, <2>2, <2>3, <2>4
    <2>7. \A u \in Uris : entries'[u] # NoEntry =>
              entries'[u].hash = entries'[u].tokens.content
      BY <1>1, <2>2, <2>3, <2>5
    <2> HIDE DEF uri
    <2>8. pc' \in [Callers -> Labels]
      BY <1>1, <2>3 DEF Labels
    <2>9. \A d \in Callers : tokens'[d] # Empty <=> pc'[d] \in {"store", "done"}
      BY <1>1, <2>1, <2>3
    <2> QED
      BY <1>1, <2>3, <2>6, <2>7, <2>8, <2>9 DEF TypeOK
  <1>8. CASE Leave(c)
    BY <1>1, <1>8 DEF TypeOK, Leave, Goto, Labels
  <1> QED
    BY <1>2, <1>3, <1>4, <1>5, <1>6, <1>7, <1>8 DEF Step

\* A caller that is done holds the tokens of its content: those it found had
\* the hash of its content, those it made were made from it.
LEMMA OwnContentStep ==
    ASSUME Inv, NEW c \in Callers, Step(c)
    PROVE  OwnContent'
  <1>1. /\ pc \in [Callers -> Labels] /\ call \in [Callers -> Calls]
        /\ tokens \in [Callers -> Slices \cup {Empty}]
    BY DEF Inv, TypeOK
  <1>2. \A d \in Callers : pc[d] = "done" => tokens[d].content = call[d].content
    BY DEF Inv, OwnContent
  <1>3. CASE Enter(c) \/ Tokenize(c) \/ Cancelled(c) \/ Leave(c)
    BY <1>1, <1>2, <1>3 DEF OwnContent, Enter, Tokenize, Cancelled, Leave, Goto
  <1>4. CASE Read(c)
    <2>1. CASE Hit(c)
      <3>1. Entry(c).tokens.content = call[c].content
        BY <2>1, EntryFacts DEF Hit, Inv
      <3> QED
        BY <1>1, <1>2, <1>4, <2>1, <3>1 DEF OwnContent, Read, Goto
    <2>2. CASE ~Hit(c)
      BY <1>1, <1>2, <1>4, <2>2 DEF OwnContent, Read, Goto
    <2> QED
      BY <2>1, <2>2
  <1>5. CASE Store(c)
    <2>1. CASE Stored(c)
      <3>1. Entry(c).tokens.content = call[c].content
        BY <2>1, EntryFacts DEF Stored, Inv
      <3> QED
        BY <1>1, <1>2, <1>5, <2>1, <3>1 DEF OwnContent, Store, Goto
    <2>2. CASE ~Stored(c)
      <3>1. tokens[c].content = call[c].content
        BY <1>5 DEF Inv, PrivateUntilStored, Store
      <3> QED
        BY <1>1, <1>2, <1>5, <2>2, <3>1 DEF OwnContent, Store, Goto
    <2> QED
      BY <2>1, <2>2
  <1> QED
    BY <1>3, <1>4, <1>5 DEF Step

\* No step makes a private slice public but the one that stores it.
LEMMA PrivateStep ==
    ASSUME Inv, NEW c \in Callers, Step(c)
    PROVE  PrivateUntilStored'
  <1>1. /\ entries \in [Uris -> Entries \cup {NoEntry}]
        /\ pc \in [Callers -> Labels] /\ call \in [Callers -> Calls]
        /\ tokens \in [Callers -> Slices \cup {Empty}]
    BY DEF Inv, TypeOK
  <1>2. SUFFICES ASSUME NEW d \in Callers, pc'[d] = "store"
                 PROVE  /\ tokens'[d].content = call'[d].content
                        /\ \A u \in Uris : entries'[u].tokens # tokens'[d]
                        /\ \A e \in Callers \ {d} : tokens'[e] # tokens'[d]
    BY DEF PrivateUntilStored
  <1>3. pc[d] = "store" =>
           /\ tokens[d] \in Slices /\ tokens[d] # Empty
           /\ tokens[d].content = call[d].content
           /\ \A u \in Uris : entries[u].tokens # tokens[d]
           /\ \A e \in Callers \ {d} : tokens[e] # tokens[d]
    BY <1>1 DEF Inv, TypeOK, PrivateUntilStored
  <1>4. CASE Enter(c) \/ Cancelled(c)
    BY <1>1, <1>2, <1>3, <1>4 DEF Enter, Cancelled, Goto
  <1>5. CASE Read(c) /\ Hit(c)
    <2>1. c # d /\ pc[d] = "store" /\ UNCHANGED <<entries, call>>
      BY <1>1, <1>2, <1>5 DEF Read, Goto
    <2>2. tokens' = [tokens EXCEPT ![c] = entries[call[c].uri].tokens]
      BY <1>5 DEF Read, Entry
    <2>3. call[c].uri \in Uris
      BY EntryFacts DEF Inv
    <2> QED
      BY <1>1, <1>3, <2>1, <2>2, <2>3
  <1>6. CASE Read(c) /\ ~Hit(c)
    BY <1>1, <1>2, <1>3, <1>6 DEF Read, Goto
  <1>7. CASE Tokenize(c)
    <2>1. PICK t \in Slices : /\ t.content = call[c].content /\ Unused(t)
                              /\ tokens' = [tokens EXCEPT ![c] = t]
      BY <1>7 DEF Tokenize
    <2>2. pc' = [pc EXCEPT ![c] = "store"] /\ UNCHANGED <<entries, call>>
      BY <1>7 DEF Tokenize, Goto
    <2> QED
      BY <1>1, <1>2, <1>3, <2>1, <2>2 DEF Unused
  <1>8. CASE Store(c) /\ Stored(c)
    <2>1. c # d /\ pc[d] = "store" /\ UNCHANGED <<entries, call>>
      BY <1>1, <1>2, <1>8 DEF Store, Goto
    <2>2. tokens' = [tokens EXCEPT ![c] = entries[call[c].uri].tokens]
      BY <1>8 DEF Store, Entry
    <2>3. call[c].uri \in Uris
      BY EntryFacts DEF Inv
    <2> QED
      BY <1>1, <1>3, <2>1, <2>2, <2>3
  <1>9. CASE Store(c) /\ ~Stored(c)
    <2>1. c # d /\ pc[d] = "store" /\ UNCHANGED <<tokens, call>>
      BY <1>1, <1>2, <1>9 DEF Store, Goto
    <2>2. entries' = [entries EXCEPT ![call[c].uri] = NewEntry(c)]
      BY <1>9 DEF Store
    <2>3. NewEntry(c).tokens = tokens[c]
      BY DEF NewEntry
    <2> QED
      BY <1>1, <1>3, <2>1, <2>2, <2>3
  <1>10. CASE Leave(c)
    BY <1>1, <1>2, <1>3, <1>10 DEF Leave, Goto
  <1> QED
    BY <1>4, <1>5, <1>6, <1>7, <1>8, <1>9, <1>10 DEF Step

LEMMA InvInit == Init => Inv
  BY EmptyAssumption DEF Init, Inv, TypeOK, OwnContent, PrivateUntilStored, Labels,
     NoEntry

LEMMA InvNext == Inv /\ [Next]_vars => Inv'
  <1> SUFFICES ASSUME Inv, [Next]_vars PROVE Inv'
    OBVIOUS
  <1>1. CASE UNCHANGED vars
    BY <1>1 DEF vars, Inv, TypeOK, OwnContent, PrivateUntilStored
  <1>2. ASSUME NEW c \in Callers, Step(c) PROVE Inv'
    BY <1>2, TypeStep, OwnContentStep, PrivateStep DEF Inv
  <1> QED
    BY <1>1, <1>2 DEF Next, Step

LEMMA CacheInvariant == Spec => []Inv
  BY InvInit, InvNext, PTL DEF Spec

\* In every reachable state entries agree with their hashes.
THEOREM CacheTyped == Spec => []TypeOK
  <1>1. Inv => TypeOK
    BY DEF Inv
  <1> QED
    BY <1>1, CacheInvariant, PTL

\* In every reachable state a caller is answered with the tokens of the
\* content it passed.
THEOREM CacheCorrect == Spec => []OwnContent
  <1>1. Inv => OwnContent
    BY DEF Inv
  <1> QED
    BY <1>1, CacheInvariant, PTL

\* In every reachable state tokens that are not yet stored are not shared.
THEOREM UnstoredIsPrivate == Spec => []PrivateUntilStored
  <1>1. Inv => PrivateUntilStored
    BY DEF Inv
  <1> QED
    BY <1>1, CacheInvariant, PTL

---------------------------------------------------------------------------
(* Refinement: a call takes effect at the lookup that hits or at the store. *)

Status == [c \in Callers |->
    IF pc[c] \in {"read", "tokenize", "store"} THEN "calling" ELSE pc[c]]
Cached == [u \in Uris |-> entries[u].tokens]
Answer == [c \in Callers |-> IF pc[c] = "done" THEN tokens[c] ELSE Empty]

\* One step of the service, or none.
ServiceStep == Service!Next \/ UNCHANGED Service!vars

LEMMA ServiceInit == Init => Service!Init
  BY DEF Init, Service!Init, Calls, Service!Calls, NoEntry

\* A step that reaches neither decides nothing: the service stutters, or
\* begins, fails or finishes the same call.
LEMMA ServiceQuiet ==
    ASSUME Inv, NEW c \in Callers,
           \/ Enter(c) \/ Tokenize(c) \/ Cancelled(c) \/ Leave(c)
           \/ (Read(c) /\ ~Hit(c))
    PROVE  ServiceStep
  <1>1. pc \in [Callers -> Labels] /\ tokens \in [Callers -> Slices \cup {Empty}]
    BY DEF Inv, TypeOK
  <1>2. CASE Enter(c)
    <2>1. /\ Status[c] = "idle" /\ Status' = [Status EXCEPT ![c] = "calling"]
          /\ Cached' = Cached /\ Answer' = Answer
      BY <1>1, <1>2 DEF Enter, Goto, Status, Cached, Answer
    <2>2. \E k \in Calls : call' = [call EXCEPT ![c] = k]
      BY <1>2 DEF Enter
    <2>3. Service!Begin(c)
      BY <2>1, <2>2 DEF Service!Begin, Status, Cached, Answer, Calls, Service!Calls
    <2> QED
      BY <2>3 DEF ServiceStep, Service!Next
  <1>3. CASE Tokenize(c) \/ (Read(c) /\ ~Hit(c))
    <2>1. /\ Status' = Status /\ Cached' = Cached /\ Answer' = Answer
          /\ call' = call
      BY <1>1, <1>3 DEF Tokenize, Read, Goto, Status, Cached, Answer
    <2> QED
      BY <2>1 DEF ServiceStep, Service!vars, Status, Cached, Answer
  <1>4. CASE Cancelled(c)
    <2>1. /\ Status[c] = "calling" /\ Status' = [Status EXCEPT ![c] = "failed"]
          /\ Cached' = Cached /\ Answer' = Answer /\ call' = call
      BY <1>1, <1>4 DEF Cancelled, Goto, Status, Cached, Answer
    <2>2. Service!Fail(c)
      BY <2>1 DEF Service!Fail, Status, Cached, Answer
    <2> QED
      BY <2>2 DEF ServiceStep, Service!Next
  <1>5. CASE Leave(c)
    <2>1. /\ Status[c] \in {"done", "failed"}
          /\ Status' = [Status EXCEPT ![c] = "idle"]
          /\ Cached' = Cached /\ Answer' = [Answer EXCEPT ![c] = Empty]
          /\ call' = call
      BY <1>1, <1>5 DEF Leave, Goto, Status, Cached, Answer
    <2>2. Service!Finish(c)
      BY <2>1 DEF Service!Finish, Status, Cached, Answer
    <2> QED
      BY <2>2 DEF ServiceStep, Service!Next
  <1> QED
    BY <1>2, <1>3, <1>4, <1>5

\* A lookup that finds the caller's content, under either lock, shares it.
LEMMA ServiceShare ==
    ASSUME Inv, NEW c \in Callers,
           (Read(c) /\ Hit(c)) \/ (Store(c) /\ Stored(c))
    PROVE  ServiceStep
  <1>1. /\ pc \in [Callers -> Labels] /\ tokens \in [Callers -> Slices \cup {Empty}]
        /\ call[c].uri \in Uris
    BY EntryFacts DEF Inv, TypeOK
  <1>2. Entry(c) # NoEntry /\ Entry(c).hash = call[c].content
    BY DEF Hit, Stored, NoEntry
  <1>3. Entry(c).tokens # Empty /\ Entry(c).tokens.content = call[c].content
    BY <1>2, EntryFacts DEF Inv
  <1>4. Cached[call[c].uri] = Entry(c).tokens
    BY <1>1 DEF Cached, Entry
  <1>5. tokens' = [tokens EXCEPT ![c] = Entry(c).tokens]
        /\ pc' = [pc EXCEPT ![c] = "done"] /\ pc[c] \in {"read", "store"}
        /\ UNCHANGED <<entries, call>>
    BY DEF Read, Store, Goto
  <1>6. /\ Status[c] = "calling" /\ Status' = [Status EXCEPT ![c] = "done"]
        /\ Cached' = Cached /\ call' = call
        /\ Answer' = [Answer EXCEPT ![c] = Cached[call[c].uri]]
    BY <1>1, <1>4, <1>5 DEF Status, Cached, Answer
  <1>7. Service!Share(c)
    BY <1>3, <1>4, <1>6 DEF Service!Share, Service!Reply, Status, Cached, Answer
  <1> QED
    BY <1>7 DEF ServiceStep, Service!Next

\* The store that finds no entry, or that of another content, replaces it
\* with a slice nobody else holds.
LEMMA ServiceReplace ==
    ASSUME Inv, NEW c \in Callers, Store(c), ~Stored(c)
    PROVE  ServiceStep
  <1>1. /\ pc \in [Callers -> Labels] /\ tokens \in [Callers -> Slices \cup {Empty}]
        /\ entries \in [Uris -> Entries \cup {NoEntry}]
        /\ call[c].uri \in Uris
    BY EntryFacts DEF Inv, TypeOK
  <1>2. /\ tokens[c] \in Slices /\ tokens[c] # Empty
        /\ tokens[c].content = call[c].content
        /\ \A u \in Uris : entries[u].tokens # tokens[c]
        /\ \A d \in Callers \ {c} : tokens[d] # tokens[c]
    BY DEF Inv, TypeOK, PrivateUntilStored, Store
  <1>3. Cached[call[c].uri] = Entry(c).tokens
    BY <1>1 DEF Cached, Entry
  <1>4. Cached[call[c].uri] # Empty =>
            Cached[call[c].uri].content # call[c].content
    BY <1>3, EntryFacts DEF Stored, Inv
  <1>5. /\ entries' = [entries EXCEPT ![call[c].uri] = NewEntry(c)]
        /\ pc' = [pc EXCEPT ![c] = "done"] /\ pc[c] = "store"
        /\ UNCHANGED <<tokens, call>>
    BY DEF Store, Goto
  <1>6. /\ Status[c] = "calling" /\ Status' = [Status EXCEPT ![c] = "done"]
        /\ call' = call /\ Answer' = [Answer EXCEPT ![c] = tokens[c]]
        /\ Cached' = [Cached EXCEPT ![call[c].uri] = tokens[c]]
    BY <1>1, <1>5 DEF Status, Cached, Answer, NewEntry
  <1>7. /\ \A u \in Uris : Cached[u] # tokens[c]
        /\ \A d \in Callers : Answer[d] # tokens[c]
    BY <1>2, <1>5 DEF Cached, Answer
  <1>8. Service!Replace(c)
    BY <1>2, <1>4, <1>6, <1>7
       DEF Service!Replace, Service!Reply, Service!Unused, Service!Slices, Slices,
           Status, Cached, Answer
  <1> QED
    BY <1>8 DEF ServiceStep, Service!Next

LEMMA ServiceNext == Inv /\ [Next]_vars => [Service!Next]_(Service!vars)
  <1> SUFFICES ASSUME Inv, [Next]_vars PROVE [Service!Next]_(Service!vars)
    OBVIOUS
  <1>1. CASE UNCHANGED vars
    <2>1. ServiceStep
      BY <1>1 DEF vars, ServiceStep, Service!vars
    <2> QED
      BY <2>1 DEF ServiceStep
  <1>2. ASSUME NEW c \in Callers, Step(c)
        PROVE  ServiceStep
    BY <1>2, ServiceQuiet, ServiceShare, ServiceReplace DEF Step
  <1> QED
    BY <1>1, <1>2 DEF Next, Step, ServiceStep

\* The cache with its two lookups and its unlocked tokenization implements
\* the one in which every call is a single step.
THEOREM CacheImplementsService == Spec => ServiceSpec
  BY CacheInvariant, ServiceInit, ServiceNext, PTL DEF Spec, ServiceSpec, Service!Spec

============================================================================
