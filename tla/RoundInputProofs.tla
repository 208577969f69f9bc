-------------------------- MODULE RoundInputProofs --------------------------
(***************************************************************************)
(* Facts about the operators of RoundInput, for any number of parties and  *)
(* any set of messages.                                                    *)
(***************************************************************************)
EXTENDS RoundInput, FiniteSetTheorems, TLAPS

\* The slots of a store and the other parties correspond one to one; the
\* index of `add_message` falls outside the store exactly for the senders
\* that are not parties.
LEMMA SlotsAndParties ==
    ASSUME NEW n \in Nat, n >= 2, NEW i \in 0 .. (n - 1)
    PROVE  /\ \A j \in Others(i, n) : /\ SlotOf(i, j) \in Slots(n)
                                      /\ PartyOf(i, SlotOf(i, j)) = j
           /\ \A s \in Slots(n) : /\ PartyOf(i, s) \in Others(i, n)
                                  /\ SlotOf(i, PartyOf(i, s)) = s
           /\ \A j \in Nat : j # i /\ SlotOf(i, j) \in Slots(n)
                                => j \in Others(i, n)
           /\ \A j, k \in Others(i, n) :
                SlotOf(i, j) = SlotOf(i, k) => j = k
    BY DEF Others, Slots, SlotOf, PartyOf

LEMMA SlotsFinite ==
    ASSUME NEW n \in Nat, n >= 2
    PROVE  IsFiniteSet(Slots(n)) /\ Cardinality(Slots(n)) = n - 1
    BY FS_Interval DEF Slots

\* Messages of a store as a partial function.
LEMMA PartialFunctions ==
    ASSUME NEW S, NEW M, NEW f
    PROVE  f \in UNION {[T -> M] : T \in SUBSET S}
              <=> /\ f = [x \in DOMAIN f |-> f[x]]
                  /\ DOMAIN f \subseteq S
                  /\ \A x \in DOMAIN f : f[x] \in M
<1>1. ASSUME f \in UNION {[T -> M] : T \in SUBSET S}
      PROVE  /\ f = [x \in DOMAIN f |-> f[x]]
             /\ DOMAIN f \subseteq S
             /\ \A x \in DOMAIN f : f[x] \in M
  <2>1. PICK T \in SUBSET S : f \in [T -> M]
    BY <1>1
  <2>. QED
    BY <2>1
<1>2. ASSUME f = [x \in DOMAIN f |-> f[x]],
             DOMAIN f \subseteq S,
             \A x \in DOMAIN f : f[x] \in M
      PROVE  f \in UNION {[T -> M] : T \in SUBSET S}
  <2>1. f \in [DOMAIN f -> M]
    BY <1>2
  <2>. QED
    BY <1>2, <2>1
<1>. QED
  BY <1>1, <1>2

\* Flattening the messages of a full store changes nothing: the k-th message
\* of the output is the one in slot k.
LEMMA FlattenFull ==
    ASSUME NEW n \in Nat, n >= 2, NEW M, NEW f \in [Slots(n) -> M]
    PROVE  Flatten(f) = f
<1>1. Cardinality(Slots(n)) = n - 1
  BY SlotsFinite
<1>2. ASSUME NEW s \in Slots(n)
      PROVE  RankIn(Slots(n), s) = s
  <2>1. {t \in Slots(n) : t < s} = 0 .. (s - 1)
    BY DEF Slots
  <2>2. Cardinality(0 .. (s - 1)) = s
    BY FS_Interval DEF Slots
  <2>. QED
    BY <2>1, <2>2 DEF RankIn
<1> DEFINE full == DOMAIN f
           pick(k) == CHOOSE s \in full : RankIn(full, s) = k
<1>3. full = Slots(n)
  OBVIOUS
<1>4. ASSUME NEW k \in full
      PROVE  pick(k) = k
  <2>1. \A s \in full : RankIn(full, s) = s
    BY <1>2, <1>3
  <2>. HIDE DEF full
  <2>. QED
    BY <2>1
<1>5. Flatten(f) = [k \in 0 .. (Cardinality(full) - 1) |-> f[pick(k)]]
  BY DEF Flatten
<1>6. 0 .. (Cardinality(full) - 1) = full
  BY <1>1, <1>3 DEF Slots
<1> HIDE DEF pick
<1>. QED
  BY <1>4, <1>5, <1>6

\* The empty store.
LEMMA NewStore ==
    ASSUME NEW n \in Nat, n >= 2, NEW i, NEW type, NEW M
    PROVE  LET store == RoundInputNew(i, n, type) IN
           /\ store \in RoundInputs(i, n, type, M)
           /\ Counted(store)
           /\ DOMAIN store.messages = {}
           /\ WantsMore(store)
<1> DEFINE store == RoundInputNew(i, n, type)
<1>1. /\ store.i = i /\ store.n = n /\ store.expected = type
      /\ store.left = n - 1
      /\ store.ids = [s \in Slots(n) |-> 0]
      /\ store.messages = [s \in {} |-> 0]
  BY DEF RoundInputNew
<1>2. [s \in {} |-> 0] \in UNION {[S -> M] : S \in SUBSET Slots(n)}
  <2>1. [s \in {} |-> 0] \in [{} -> M]
    OBVIOUS
  <2>. QED
    BY <2>1
<1>3. store \in RoundInputs(i, n, type, M)
  <2>1. [s \in Slots(n) |-> 0] \in [Slots(n) -> Nat] /\ n - 1 \in 0 .. (n - 1)
    OBVIOUS
  <2>. QED
    BY <1>2, <2>1 DEF RoundInputs, RoundInputNew
<1>4. Cardinality({}) = 0
  BY FS_EmptySet
<1>. QED
  BY <1>1, <1>3, <1>4 DEF Counted, WantsMore

\* Accepting a message of another party fills exactly its slot, and the
\* count of missing messages stays right: it never goes below zero, and the
\* slots are all occupied when it reaches zero.
LEMMA AddedMessage ==
    ASSUME NEW n \in Nat, n >= 2, NEW i \in 0 .. (n - 1), NEW type, NEW M,
           NEW store \in RoundInputs(i, n, type, M), Counted(store),
           NEW m, m.sender \in Nat, m.id \in Nat, m.msg \in M,
           AddMessageError(store, m) = NoError, m.sender # i
    PROVE  LET new == AddMessage(store, m)
               slot == SlotOf(i, m.sender)
           IN /\ new \in RoundInputs(i, n, type, M)
              /\ Counted(new)
              /\ slot \in Slots(n) \ DOMAIN store.messages
              /\ DOMAIN new.messages = DOMAIN store.messages \cup {slot}
              /\ new.messages[slot] = m.msg
              /\ new.ids[slot] = m.id
              /\ \A s \in DOMAIN store.messages :
                    /\ new.messages[s] = store.messages[s]
                    /\ new.ids[s] = store.ids[s]
<1> DEFINE new == AddMessage(store, m)
           slot == SlotOf(i, m.sender)
           full == DOMAIN store.messages
<1>1. /\ store.i = i /\ store.n = n /\ store.left \in Int
      /\ store.ids \in [Slots(n) -> Nat]
      /\ store.messages \in UNION {[S -> M] : S \in SUBSET Slots(n)}
  BY DEF RoundInputs
<1>2. /\ full \subseteq Slots(n)
      /\ \A s \in full : store.messages[s] \in M
  BY <1>1, PartialFunctions
<1>3. slot \in Slots(n) /\ slot \notin full
  BY <1>1 DEF AddMessageError, NoError, MismatchedMessageType,
              SenderIndexOutOfRange, AttemptToOverwriteReceivedMsg
<1> DEFINE added == [s \in full \cup {slot} |->
                        IF s = slot THEN m.msg ELSE store.messages[s]]
<1>4. new = [store EXCEPT !.left = @ - 1, !.ids[slot] = m.id,
                          !.messages = added]
  BY <1>1 DEF AddMessage
<1> HIDE DEF added
<1>5. /\ new.i = i /\ new.n = n /\ new.expected = type
      /\ new.left = store.left - 1
      /\ new.ids = [store.ids EXCEPT ![slot] = m.id]
      /\ new.messages = added
      /\ new = [i |-> i, n |-> n, expected |-> type, left |-> store.left - 1,
                ids |-> [store.ids EXCEPT ![slot] = m.id],
                messages |-> added]
  BY <1>4 DEF RoundInputs
<1>6. /\ DOMAIN added = full \cup {slot}
      /\ added[slot] = m.msg
      /\ \A s \in full : added[s] = store.messages[s]
  BY <1>3 DEF added
<1>7. added \in UNION {[S -> M] : S \in SUBSET Slots(n)}
  <2>1. \A s \in DOMAIN added : added[s] \in M
    BY <1>2, <1>6
  <2>2. added = [s \in DOMAIN added |-> added[s]]
    BY DEF added
  <2>. QED
    BY <2>1, <2>2, <1>6, <1>2, <1>3, PartialFunctions
<1>8. Cardinality(full \cup {slot}) = Cardinality(full) + 1
      /\ Cardinality(full) \in Nat
      /\ Cardinality(full \cup {slot}) <= n - 1
      /\ Cardinality(full \cup {slot}) \in Nat
  <2>1. IsFiniteSet(full)
    BY <1>2, SlotsFinite, FS_Subset
  <2>2. full \cup {slot} \in SUBSET Slots(n)
    BY <1>2, <1>3
  <2>3. /\ IsFiniteSet(full \cup {slot})
        /\ Cardinality(full \cup {slot}) <= n - 1
    BY <2>2, SlotsFinite, FS_Subset
  <2>4. Cardinality(full \cup {slot}) = Cardinality(full) + 1
    BY <2>1, <1>3, FS_AddElement
  <2>. QED
    BY <2>1, <2>3, <2>4, FS_CardinalityType
<1>9. Counted(new) /\ new.left \in 0 .. (n - 1)
  BY <1>1, <1>5, <1>6, <1>8 DEF Counted
<1>10. new \in RoundInputs(i, n, type, M)
  BY <1>1, <1>3, <1>5, <1>7, <1>9 DEF RoundInputs
<1>. QED
  BY <1>1, <1>3, <1>5, <1>6, <1>9, <1>10

\* A store that wants no more messages has one of every other party, and
\* outputs them slot by slot with their ids.
LEMMA FullStore ==
    ASSUME NEW n \in Nat, n >= 2, NEW i, NEW type, NEW M,
           NEW store \in RoundInputs(i, n, type, M), Counted(store),
           ~ WantsMore(store)
    PROVE  /\ DOMAIN store.messages = Slots(n)
           /\ store.messages \in [Slots(n) -> M]
           /\ Output(store) = [i |-> i, ids |-> store.ids,
                               messages |-> store.messages]
<1>1. /\ store.n = n /\ store.i = i /\ store.left = 0
      /\ store.messages \in UNION {[S -> M] : S \in SUBSET Slots(n)}
  BY DEF RoundInputs, WantsMore
<1>2. DOMAIN store.messages \in SUBSET Slots(n)
  BY <1>1, PartialFunctions
<1>3. Cardinality(DOMAIN store.messages) \in Nat
  BY <1>2, SlotsFinite, FS_Subset, FS_CardinalityType
<1>4. Cardinality(DOMAIN store.messages) = Cardinality(Slots(n))
  BY <1>1, <1>3, SlotsFinite DEF Counted
<1>5. DOMAIN store.messages = Slots(n)
  BY <1>2, <1>4, SlotsFinite, FS_Subset
<1>6. store.messages \in [Slots(n) -> M]
  BY <1>1, <1>5, PartialFunctions
<1>. QED
  BY <1>1, <1>5, <1>6, FlattenFull DEF Output

\* A store that wants more still misses the message of some party.
LEMMA VacantSlot ==
    ASSUME NEW n \in Nat, n >= 2, NEW i \in 0 .. (n - 1), NEW type, NEW M,
           NEW store \in RoundInputs(i, n, type, M), Counted(store),
           WantsMore(store)
    PROVE  \E j \in Others(i, n) : SlotOf(i, j) \notin DOMAIN store.messages
<1>1. store.n = n /\ store.left \in Int /\ store.left > 0
  BY DEF RoundInputs, WantsMore
<1>2. DOMAIN store.messages # Slots(n)
  BY <1>1, SlotsFinite DEF Counted
<1>3. DOMAIN store.messages \subseteq Slots(n)
  BY PartialFunctions DEF RoundInputs
<1>4. PICK s \in Slots(n) : s \notin DOMAIN store.messages
  BY <1>2, <1>3
<1>. QED
  BY <1>4, SlotsAndParties
=============================================================================
