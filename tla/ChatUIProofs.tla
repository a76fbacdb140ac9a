---------------------------- MODULE ChatUIProofs ----------------------------
(***************************************************************************)
(* Proofs about ChatUI: IndInv is inductive, hence AnswerWhereAsked,       *)
(* StoredIsOneTabsView and NothingLost.                                    *)
(*                                                                         *)
(* What a handler does to a list of chats is said by Has: which messages   *)
(* stand in which chat. What saveChats does with the list, a Saving.       *)
(***************************************************************************)
EXTENDS ChatUI, SequenceTheorems, TLAPS

\* Message m stands in a chat of the list with this id.
Says(list, i, m) == \E j \in DOMAIN list[i].messages : m = list[i].messages[j]

Has(list, id, m) == \E i \in DOMAIN list : list[i].id = id /\ Says(list, i, m)

\* No message of the list is question q.
Lacks(list, q) == \A id, m : Has(list, id, m) => m.ask # q

Honest(list) == \A id, m : Has(list, id, m) => m.reply \in {Thinking, Failed, m.ask}

-----------------------------------------------------------------------------
(* Lists of chats.                                                         *)

LEMMA SeqFacts ==
  ASSUME NEW S, NEW s \in Seq(S)
  PROVE  Len(s) \in Nat /\ DOMAIN s = 1..Len(s) /\ \A i \in DOMAIN s : s[i] \in S
OBVIOUS

LEMMA ChatFacts ==
  ASSUME NEW list \in Seq(Chat), NEW i \in DOMAIN list
  PROVE  list[i].id \in Chats /\ list[i].messages \in Seq(Message)
<1>1. list[i] \in Chat
  BY SeqFacts
<1> QED
  BY <1>1 DEF Chat

LEMMA HasFacts ==
  ASSUME NEW list \in Seq(Chat), NEW id, NEW m, Has(list, id, m)
  PROVE  id \in Chats /\ m \in Message /\ m.ask \in Questions
<1>1. PICK i \in DOMAIN list : /\ list[i].id = id
                               /\ \E j \in DOMAIN list[i].messages : m = list[i].messages[j]
  BY DEF Has, Says
<1>2. list[i].id \in Chats /\ list[i].messages \in Seq(Message)
  BY ChatFacts
<1>3. m \in Message
  BY <1>1, <1>2, SeqFacts
<1> QED
  BY <1>1, <1>2, <1>3 DEF Message

LEMMA MessagesAre ==
  ASSUME NEW list, NEW m
  PROVE  m \in Messages(list) <=> \E id : Has(list, id, m)
BY DEF Messages, ToSet, Has, Says

LEMMA EmptyList == /\ <<>> \in Seq(Chat) /\ \A id, m : ~Has(<<>>, id, m)
BY DEF Has

\* A new chat at the head of the list.
LEMMA NewChat ==
  ASSUME NEW list \in Seq(Chat), NEW n \in Chats
  PROVE  /\ <<Empty(n)>> \o list \in Seq(Chat)
         /\ \A id, m : Has(<<Empty(n)>> \o list, id, m) <=> Has(list, id, m)
<1> DEFINE new == <<Empty(n)>> \o list
<1>1. Empty(n) \in Chat /\ Empty(n).messages = <<>>
  BY DEF Empty, Chat
<1>2. <<Empty(n)>> \in Seq(Chat) /\ Len(<<Empty(n)>>) = 1 /\ <<Empty(n)>>[1] = Empty(n)
  BY <1>1
<1>3. /\ new \in Seq(Chat) /\ Len(new) = 1 + Len(list)
      /\ \A i \in 1..Len(new) : new[i] = IF i <= 1 THEN <<Empty(n)>>[i] ELSE list[i - 1]
  BY <1>2, ConcatProperties
<1> HIDE DEF new
<1>4. Len(list) \in Nat /\ DOMAIN list = 1..Len(list) /\ DOMAIN new = 1..(1 + Len(list))
  BY <1>3, SeqFacts
<1>5. new[1] = Empty(n) /\ \A i \in DOMAIN list : i + 1 \in DOMAIN new /\ new[i + 1] = list[i]
  BY <1>2, <1>3, <1>4
<1>6. \A i \in DOMAIN new : i = 1 \/ (i - 1 \in DOMAIN list /\ new[i] = list[i - 1])
  BY <1>3, <1>4
<1>7. ASSUME NEW id, NEW m, Has(new, id, m) PROVE Has(list, id, m)
  <2>1. PICK i \in DOMAIN new : /\ new[i].id = id
                                /\ \E j \in DOMAIN new[i].messages : m = new[i].messages[j]
    BY <1>7 DEF Has, Says
  <2>2. i # 1
    BY <1>1, <1>5, <2>1
  <2> QED
    BY <1>6, <2>1, <2>2 DEF Has, Says
<1>8. ASSUME NEW id, NEW m, Has(list, id, m) PROVE Has(new, id, m)
  BY <1>5, <1>8 DEF Has, Says
<1> QED
  BY <1>3, <1>7, <1>8 DEF new

\* What a handler does to the chats with an id, it does to their messages.
LEMMA AskedChats ==
  ASSUME NEW list \in Seq(Chat), NEW id \in Chats, NEW q \in Questions
  PROVE  /\ Asked(list, id, q) \in Seq(Chat) /\ DOMAIN Asked(list, id, q) = DOMAIN list
         /\ \A i \in DOMAIN list :
              /\ Asked(list, id, q)[i].id = list[i].id
              /\ list[i].id # id => Asked(list, id, q)[i].messages = list[i].messages
              /\ list[i].id = id => Asked(list, id, q)[i].messages =
                                      Append(list[i].messages, [ask |-> q, reply |-> Thinking])
<1>1. \A s \in Seq(Message) : Append(s, [ask |-> q, reply |-> Thinking]) \in Seq(Message)
  BY DEF Message
<1>2. \A i \in DOMAIN list : list[i] \in Chat /\ list[i].messages \in Seq(Message)
  BY SeqFacts, ChatFacts
<1>3. \A i \in DOMAIN list : Asked(list, id, q)[i] \in Chat
  BY <1>1, <1>2 DEF Asked, InChat, Chat
<1>4. Asked(list, id, q) \in Seq(Chat) /\ DOMAIN Asked(list, id, q) = DOMAIN list
  BY <1>3, SeqFacts DEF Asked, InChat
<1> QED
  BY <1>2, <1>4 DEF Asked, InChat, Chat

LEMMA FilledChats ==
  ASSUME NEW list \in Seq(Chat), NEW id \in Chats, NEW q \in Questions,
         NEW text \in Questions \union {Thinking, Failed}
  PROVE  /\ Filled(list, id, q, text) \in Seq(Chat)
         /\ DOMAIN Filled(list, id, q, text) = DOMAIN list
         /\ \A i \in DOMAIN list :
              /\ Filled(list, id, q, text)[i].id = list[i].id
              /\ list[i].id # id => Filled(list, id, q, text)[i].messages = list[i].messages
              /\ list[i].id = id => Filled(list, id, q, text)[i].messages =
                   [j \in DOMAIN list[i].messages |->
                      IF list[i].messages[j].ask = q THEN [ask |-> q, reply |-> text]
                      ELSE list[i].messages[j]]
<1>1. \A s \in Seq(Message) : [j \in DOMAIN s |-> IF s[j].ask = q THEN [ask |-> q, reply |-> text]
                                                 ELSE s[j]] \in Seq(Message)
  BY DEF Message
<1>2. \A i \in DOMAIN list : list[i] \in Chat /\ list[i].messages \in Seq(Message)
  BY SeqFacts, ChatFacts
<1>3. \A i \in DOMAIN list : Filled(list, id, q, text)[i] \in Chat
  BY <1>1, <1>2 DEF Filled, InChat, Chat
<1>4. /\ Filled(list, id, q, text) \in Seq(Chat)
      /\ DOMAIN Filled(list, id, q, text) = DOMAIN list
  BY <1>3, SeqFacts DEF Filled, InChat
<1> QED
  BY <1>2, <1>4 DEF Filled, InChat, Chat

\* The question is put at the end of the chat.
LEMMA AskedHas ==
  ASSUME NEW list \in Seq(Chat), NEW c \in Chats, NEW q \in Questions, NEW id, NEW m
  PROVE  Has(Asked(list, c, q), id, m) <=>
           \/ Has(list, id, m)
           \/ id = c /\ IsActive(list, c) /\ m = [ask |-> q, reply |-> Thinking]
<1>1. PICK new, asked : new = Asked(list, c, q) /\ asked = [ask |-> q, reply |-> Thinking]
  OBVIOUS
<1>2. /\ DOMAIN new = DOMAIN list
      /\ \A i \in DOMAIN list :
           /\ new[i].id = list[i].id
           /\ list[i].id # c => new[i].messages = list[i].messages
           /\ list[i].id = c => new[i].messages = Append(list[i].messages, asked)
  BY <1>1, AskedChats
<1>3. ASSUME NEW i \in DOMAIN list, list[i].id = c
      PROVE  Says(new, i, m) <=> m = asked \/ Says(list, i, m)
  <2>1. PICK s \in Seq(Message) : s = list[i].messages
    BY ChatFacts
  <2>2. PICK n : n = Append(s, asked)
    OBVIOUS
  <2>3. new[i].messages = n
    BY <1>2, <1>3, <2>1, <2>2
  <2>4. Len(s) \in Nat /\ DOMAIN s = 1..Len(s) /\ DOMAIN n = 1..(Len(s) + 1)
    BY <2>2
  <2>5. n[Len(s) + 1] = asked /\ \A j \in 1..Len(s) : n[j] = s[j]
    BY <2>2
  <2>6. (\E j \in DOMAIN n : m = n[j]) <=> m = asked \/ \E j \in DOMAIN s : m = s[j]
    <3>1. \A j \in 1..(Len(s) + 1) : j \in 1..Len(s) \/ j = Len(s) + 1
      BY <2>4
    <3>2. Len(s) + 1 \in 1..(Len(s) + 1) /\ \A j \in 1..Len(s) : j \in 1..(Len(s) + 1)
      BY <2>4
    <3> QED
      BY <2>4, <2>5, <3>1, <3>2
  <2> QED
    BY <2>1, <2>3, <2>6 DEF Says
<1>4. \A i \in DOMAIN list : list[i].id # c => (Says(new, i, m) <=> Says(list, i, m))
  BY <1>2 DEF Says
<1>5. ASSUME Has(new, id, m) PROVE Has(list, id, m) \/ (id = c /\ IsActive(list, c) /\ m = asked)
  BY <1>2, <1>3, <1>4, <1>5 DEF Has, IsActive
<1>6. ASSUME Has(list, id, m) PROVE Has(new, id, m)
  BY <1>2, <1>3, <1>4, <1>6 DEF Has
<1>7. ASSUME IsActive(list, c), m = asked PROVE Has(new, c, m)
  BY <1>2, <1>3, <1>7 DEF Has, IsActive
<1> QED
  BY <1>1, <1>5, <1>6, <1>7

\* The text is put under the question, where it stands in the chat.
LEMMA FilledHas ==
  ASSUME NEW list \in Seq(Chat), NEW c \in Chats, NEW q \in Questions,
         NEW text \in Questions \union {Thinking, Failed}, NEW id, NEW m
  PROVE  Has(Filled(list, c, q, text), id, m) <=>
           \/ Has(list, id, m) /\ ~(id = c /\ m.ask = q)
           \/ /\ id = c /\ m = [ask |-> q, reply |-> text]
              /\ \E old : Has(list, c, old) /\ old.ask = q
<1>1. PICK new, filled : /\ new = Filled(list, c, q, text)
                         /\ filled = [ask |-> q, reply |-> text]
  OBVIOUS
<1>2. filled.ask = q
  BY <1>1
<1>3. /\ DOMAIN new = DOMAIN list
      /\ \A i \in DOMAIN list :
           /\ new[i].id = list[i].id
           /\ list[i].id # c => new[i].messages = list[i].messages
           /\ list[i].id = c => new[i].messages =
                [j \in DOMAIN list[i].messages |->
                   IF list[i].messages[j].ask = q THEN filled ELSE list[i].messages[j]]
  BY <1>1, FilledChats
<1>4. ASSUME NEW i \in DOMAIN list, list[i].id = c
      PROVE  Says(new, i, m) <=>
               \/ m = filled /\ \E old : Says(list, i, old) /\ old.ask = q
               \/ m.ask # q /\ Says(list, i, m)
  <2>1. PICK s : s = list[i].messages
    OBVIOUS
  <2>2. PICK n : n = [j \in DOMAIN s |-> IF s[j].ask = q THEN filled ELSE s[j]]
    OBVIOUS
  <2>3. new[i].messages = n
    BY <1>3, <1>4, <2>1, <2>2
  <2>4. DOMAIN n = DOMAIN s /\ \A j \in DOMAIN s : n[j] = IF s[j].ask = q THEN filled ELSE s[j]
    BY <2>2
  <2>5. (\E j \in DOMAIN n : m = n[j]) <=>
               \/ m = filled /\ \E j \in DOMAIN s : s[j].ask = q
               \/ m.ask # q /\ \E j \in DOMAIN s : m = s[j]
    BY <2>4
  <2> QED
    BY <2>1, <2>3, <2>5 DEF Says
<1>5. \A i \in DOMAIN list : list[i].id # c => (Says(new, i, m) <=> Says(list, i, m))
  BY <1>3 DEF Says
<1>6. ASSUME id # c PROVE Has(new, id, m) <=> Has(list, id, m)
  BY <1>3, <1>5, <1>6 DEF Has
<1>7. ASSUME Has(new, c, m)
      PROVE  \/ Has(list, c, m) /\ m.ask # q
             \/ m = filled /\ \E old : Has(list, c, old) /\ old.ask = q
  BY <1>3, <1>4, <1>7 DEF Has
<1>8. ASSUME Has(list, c, m), m.ask # q PROVE Has(new, c, m)
  BY <1>3, <1>4, <1>8 DEF Has
<1>9. ASSUME NEW old, Has(list, c, old), old.ask = q, m = filled PROVE Has(new, c, m)
  BY <1>3, <1>4, <1>9 DEF Has
<1> QED
  BY <1>1, <1>2, <1>6, <1>7, <1>8, <1>9

-----------------------------------------------------------------------------
(* The invariant, in terms of Has.                                         *)

HonestLists ==
  /\ \A t \in Tabs : Honest(chats[t])
  /\ \A k \in Keys : Honest(storage[k].chats)

Unasked ==
  \A q \in Questions : fate[q] = "unasked" =>
    /\ \A t \in Tabs : Lacks(chats[t], q)
    /\ \A k \in Keys : Lacks(storage[k].chats, q)

Blank == \A t \in Tabs : page[t] = "closed" => chats[t] = <<>> /\ pending[t] = None

\* Question q stands in the list, with what its fate makes expected.
Recorded(list, q) ==
  /\ \E id : Has(list, id, [ask |-> q, reply |-> Expected(q)])
  /\ \A id, m : Has(list, id, m) /\ m.ask = q => m.reply = Expected(q)

Counts(q) == fate[q] \notin {"unasked", "early"}

Kept == sole # Shared => \A q \in Questions : Counts(q) => Recorded(storage["user"].chats, q)

\* The question tab t waits for stands in the chat it was asked in, if anywhere.
InPlace(t) ==
  \A id, m : Has(chats[t], id, m) /\ m.ask = pending[t].ask => id = pending[t].chat

Waits(t) ==
  pending[t] # None /\ fate[pending[t].ask] # "early" =>
    page[t] = "ready" /\ fate[pending[t].ask] = "sent" /\ InPlace(t)

Sole ==
  /\ \A t \in Tabs \ {sole} : sole # Shared => page[t] = "closed"
  /\ sole \in Tabs /\ page[sole] = "ready" => chats[sole] = storage["user"].chats
  /\ sole \in Tabs => Waits(sole)

Viewed ==
  writer # None /\ page[writer] = "ready" /\ ~raised[writer] =>
    storage["user"].chats = chats[writer]

Inv == TypeOK /\ HonestLists /\ Unasked /\ Blank /\ Kept /\ Sole /\ Viewed

LEMMA ShownAre ==
  ASSUME NEW m
  PROVE  m \in Shown <=> \/ \E t \in Tabs : m \in Messages(chats[t])
                         \/ \E k \in Keys : m \in Messages(storage[k].chats)
BY DEF Shown

LEMMA InPlaceIs ==
  ASSUME NEW list, NEW q, NEW c
  PROVE  (\A i \in DOMAIN list : \A m \in ToSet(list[i].messages) : m.ask = q => list[i].id = c) <=>
         (\A id, m : Has(list, id, m) /\ m.ask = q => id = c)
BY DEF Has, Says, ToSet

LEMMA Parts == IndInv <=> Inv
<1>1. AnswerWhereAsked <=> HonestLists
  BY ShownAre, MessagesAre DEF AnswerWhereAsked, HonestLists, Honest
<1>2. Remembered <=> Unasked /\ Blank
  <2>1. ASSUME NEW q
        PROVE  (\A m \in Shown : m.ask # q) <=>
                 /\ \A t \in Tabs : Lacks(chats[t], q)
                 /\ \A k \in Keys : Lacks(storage[k].chats, q)
    BY ShownAre, MessagesAre DEF Lacks
  <2> QED
    BY <2>1 DEF Remembered, Unasked, Blank
<1>3. NothingLost <=> Kept
  BY MessagesAre DEF NothingLost, Kept, Recorded, Counts
<1>4. SoleTab <=> Sole
  <2>1. InPlace(sole) <=>
          \A i \in DOMAIN chats[sole] : \A m \in ToSet(chats[sole][i].messages) :
            m.ask = pending[sole].ask => chats[sole][i].id = pending[sole].chat
    <3>1. PICK list, q, c : list = chats[sole] /\ q = pending[sole].ask /\ c = pending[sole].chat
      OBVIOUS
    <3>2. InPlace(sole) <=> \A id, m : Has(list, id, m) /\ m.ask = q => id = c
      BY <3>1 DEF InPlace
    <3>3. (\A i \in DOMAIN list : \A m \in ToSet(list[i].messages) :
             m.ask = q => list[i].id = c)
            <=> \A id, m : Has(list, id, m) /\ m.ask = q => id = c
      BY InPlaceIs
    <3> QED
      BY <3>1, <3>2, <3>3
  <2> QED
    BY <2>1 DEF SoleTab, Sole, Waits
<1> QED
  BY <1>1, <1>2, <1>3, <1>4 DEF IndInv, StoredIsOneTabsView, Inv, Viewed

-----------------------------------------------------------------------------
(* saveChats.                                                              *)

Stored == [chats : Seq(Chat), active : Chats \union {None}]

\* What setItem leaves under a key, if it succeeds.
LEMMA StoresFacts ==
  ASSUME TypeOK, NEW t \in Tabs, NEW key \in Keys, NEW list \in Seq(Chat),
         NEW id \in Chats \union {None}, Stores(t, key, list, id)
  PROVE  /\ storage' \in [Keys -> Stored] /\ writer' \in Tabs \union {None}
         /\ storage'[key].chats = list /\ \A k \in Keys \ {key} : storage'[k] = storage[k]
         /\ writer' = IF key = "user" THEN t ELSE writer
<1>1. Saved(list, id) \in Stored /\ Saved(list, id).chats = list
  BY DEF Saved, Stored
<1>2. storage \in [Keys -> Stored]
  BY DEF TypeOK, Stored
<1>3. storage' = [storage EXCEPT ![key] = Saved(list, id)] /\ writer' = IF key = "user" THEN t ELSE writer
  BY DEF Stores
<1>4. storage'[key] = Saved(list, id) /\ \A k \in Keys \ {key} : storage'[k] = storage[k]
  BY <1>2, <1>3
<1>5. storage' \in [Keys -> Stored]
  BY <1>1, <1>2, <1>3
<1> QED
  BY <1>1, <1>3, <1>4, <1>5 DEF TypeOK

\* A setItem that raises.
LEMMA RaisesFacts ==
  ASSUME TypeOK, NEW t \in Tabs, Raises(t)
  PROVE  /\ raised' \in [Tabs -> BOOLEAN] /\ raised'[t] /\ sole' = Shared
         /\ \A u \in Tabs \ {t} : raised'[u] = raised[u]
BY DEF TypeOK, Raises

\* The three ways saveChats ends.
LEMMA SaveFacts ==
  ASSUME TypeOK, NEW t \in Tabs, NEW list \in Seq(Chat), NEW id \in Chats \union {None},
         saveChats(t, list, id)
  PROVE  /\ storage' \in [Keys -> Stored] /\ writer' \in Tabs \union {None}
         /\ raised' \in [Tabs -> BOOLEAN] /\ sole' \in Tabs \union {None, Shared}
         /\ \A k \in Keys : storage'[k].chats \in {list, storage[k].chats}
         /\ \/ /\ page[t] = "ready" /\ storage'["user"].chats = list /\ writer' = t
               /\ UNCHANGED <<raised, sole>>
            \/ /\ page[t] # "ready" /\ storage'["user"].chats = storage["user"].chats
               /\ UNCHANGED <<writer, raised, sole>>
            \/ /\ UNCHANGED <<storage, writer>> /\ sole' = Shared
               /\ raised'[t] /\ \A u \in Tabs \ {t} : raised'[u] = raised[u]
<1>1. PICK key \in Keys : key = storageKey(t) /\ (key = "user" <=> page[t] = "ready")
  BY DEF storageKey, Keys
<1>2. storage \in [Keys -> Stored] /\ "user" \in Keys
  BY DEF TypeOK, Stored, Keys
<1>3. CASE Fits(key, list)
  <2>1. Stores(t, key, list, id) /\ UNCHANGED <<raised, sole>>
    BY <1>1, <1>3 DEF saveChats, SaveUnder
  <2>2. /\ storage' \in [Keys -> Stored] /\ writer' \in Tabs \union {None}
        /\ storage'[key].chats = list /\ \A k \in Keys \ {key} : storage'[k] = storage[k]
        /\ writer' = IF key = "user" THEN t ELSE writer
    BY <2>1, StoresFacts
  <2> QED
    BY <1>1, <1>2, <2>1, <2>2 DEF TypeOK
<1>4. CASE ~Fits(key, list)
  <2>1. Raises(t) /\ UNCHANGED <<storage, writer>>
    BY <1>1, <1>4 DEF saveChats, SaveUnder
  <2> QED
    BY <1>2, <2>1, RaisesFacts DEF TypeOK
<1> QED
  BY <1>3, <1>4

-----------------------------------------------------------------------------
(* A handler that saves.                                                   *)

Fate == {"unasked", "early", "sent", "answered", "failed", "abandoned"}

\* Tab t has a new list, and the questions a fate each, that go together.
Goes(t, list) ==
  /\ Honest(list)
  /\ \A q \in Questions : fate'[q] = "unasked" => fate[q] = "unasked" /\ Lacks(list, q)
  /\ sole = t /\ page[t] # "ready" => \A q \in Questions : Counts(q)' => fate'[q] = fate[q]
  /\ sole = t /\ page[t] = "ready" => \A q \in Questions : Counts(q)' => Recorded(list, q)'
  /\ sole' = t /\ pending'[t] # None /\ fate'[pending'[t].ask] # "early" =>
       /\ page[t] = "ready" /\ fate'[pending'[t].ask] = "sent"
       /\ \A id, m : Has(list, id, m) /\ m.ask = pending'[t].ask => id = pending'[t].chat

LEMMA SavingStep ==
  ASSUME Inv, NEW t \in Tabs, page[t] # "closed",
         NEW list \in Seq(Chat), NEW id \in Chats \union {None},
         Remember(t, list, id), saveChats(t, list, id), page' = page,
         created' \in 0..MaxChats, busy' \in [Tabs -> BOOLEAN],
         pending' \in [Tabs -> Pending \union {None}], fate' \in [Questions -> Fate],
         \A u \in Tabs \ {t} : pending'[u] = pending[u],
         Goes(t, list)
  PROVE  Inv'
<1>1. TypeOK /\ "user" \in Keys
  BY DEF Inv, Keys
<1>2. /\ storage' \in [Keys -> Stored] /\ writer' \in Tabs \union {None}
      /\ raised' \in [Tabs -> BOOLEAN] /\ sole' \in Tabs \union {None, Shared}
      /\ \A k \in Keys : storage'[k].chats \in {list, storage[k].chats}
  BY <1>1, SaveFacts
<1>3. \/ /\ page[t] = "ready" /\ storage'["user"].chats = list /\ writer' = t
         /\ UNCHANGED <<raised, sole>>
      \/ /\ page[t] # "ready" /\ storage'["user"].chats = storage["user"].chats
         /\ UNCHANGED <<writer, raised, sole>>
      \/ /\ UNCHANGED <<storage, writer>> /\ sole' = Shared
         /\ raised'[t] /\ \A u \in Tabs \ {t} : raised'[u] = raised[u]
  BY <1>1, SaveFacts
<1>4. /\ chats' \in [Tabs -> Seq(Chat)] /\ active' \in [Tabs -> Chats \union {None}]
      /\ chats'[t] = list /\ \A u \in Tabs \ {t} : chats'[u] = chats[u]
  BY <1>1 DEF Remember, TypeOK
<1>5. TypeOK'
  BY <1>1, <1>2, <1>4 DEF TypeOK, Stored, Fate
<1>6. sole # Shared => sole = t
  BY DEF Inv, Sole
<1>7. HonestLists'
  BY <1>2, <1>4 DEF Inv, HonestLists, Goes
<1>8. Unasked'
  BY <1>2, <1>4 DEF Inv, Unasked, Goes
<1>9. Blank'
  BY <1>4 DEF Inv, Blank
<1>10. Kept'
  <2> SUFFICES ASSUME sole' # Shared, NEW q \in Questions, Counts(q)'
               PROVE  Recorded(storage["user"].chats, q)'
    BY DEF Kept
  <2>1. sole = t /\ sole # Shared
    BY <1>3, <1>6
  <2>2. CASE page[t] = "ready"
    <3>1. storage'["user"].chats = list /\ Recorded(list, q)'
      BY <1>3, <2>1, <2>2 DEF Goes
    <3> QED
      BY <3>1 DEF Recorded
  <2>3. CASE page[t] # "ready"
    <3>1. storage'["user"].chats = storage["user"].chats /\ fate'[q] = fate[q]
      BY <1>3, <2>1, <2>3 DEF Goes
    <3>2. Recorded(storage["user"].chats, q)
      BY <2>1, <3>1 DEF Inv, Kept, Counts
    <3> QED
      BY <3>1, <3>2 DEF Recorded, Expected
  <2> QED
    BY <2>2, <2>3
<1>11. Sole'
  <2> SUFFICES ASSUME sole' # Shared PROVE Sole'
    BY <1>2, UIAssumption DEF Sole
  <2>1. sole' = t /\ sole = t /\ \A u \in Tabs \ {t} : page[u] = "closed"
    BY <1>3, <1>6 DEF Inv, Sole
  <2>2. page[t] = "ready" => chats'[t] = storage'["user"].chats
    BY <1>3, <1>4
  <2>3. Waits(t)'
    BY <1>4, <2>1 DEF Goes, Waits, InPlace
  <2> QED
    BY <2>1, <2>2, <2>3 DEF Sole, Waits, InPlace
<1>12. Viewed'
  BY <1>1, <1>3, <1>4 DEF Inv, Viewed, TypeOK
<1> QED
  BY <1>5, <1>7, <1>8, <1>9, <1>10, <1>11, <1>12 DEF Inv

\* A handler in which a save raises: nothing is owed to the page any more.
LEMMA RaisingStep ==
  ASSUME Inv, NEW t \in Tabs,
         NEW list \in Seq(Chat), NEW id \in Chats \union {None},
         Remember(t, list, id), Raises(t),
         page' \in [Tabs -> {"closed", "loading", "ready"}], page'[t] # "closed",
         \A u \in Tabs \ {t} : page'[u] = page[u] /\ pending'[u] = pending[u],
         created' \in 0..MaxChats, busy' \in [Tabs -> BOOLEAN],
         pending' \in [Tabs -> Pending \union {None}], fate' \in [Questions -> Fate],
         storage' \in [Keys -> Stored], writer' \in Tabs \union {None},
         writer' = t \/ (writer' = writer /\ storage'["user"].chats = storage["user"].chats),
         Honest(list), \A k \in Keys : Honest(storage'[k].chats),
         \A q \in Questions : fate'[q] = "unasked" =>
           fate[q] = "unasked" /\ Lacks(list, q) /\ \A k \in Keys : Lacks(storage'[k].chats, q)
  PROVE  Inv'
<1>1. TypeOK /\ "user" \in Keys
  BY DEF Inv, Keys
<1>2. /\ raised' \in [Tabs -> BOOLEAN] /\ raised'[t] /\ sole' = Shared
      /\ \A u \in Tabs \ {t} : raised'[u] = raised[u]
  BY <1>1, RaisesFacts
<1>3. /\ chats' \in [Tabs -> Seq(Chat)] /\ active' \in [Tabs -> Chats \union {None}]
      /\ chats'[t] = list /\ \A u \in Tabs \ {t} : chats'[u] = chats[u]
  BY <1>1 DEF Remember, TypeOK
<1>4. TypeOK'
  BY <1>1, <1>2, <1>3 DEF TypeOK, Stored, Fate
<1>5. HonestLists'
  BY <1>3 DEF Inv, HonestLists
<1>6. Unasked'
  BY <1>3 DEF Inv, Unasked
<1>7. Blank'
  BY <1>3 DEF Inv, Blank
<1>8. Kept'
  BY <1>2 DEF Kept
<1>9. Sole'
  BY <1>2, UIAssumption DEF Sole
<1>10. Viewed'
  BY <1>1, <1>2, <1>3 DEF Inv, Viewed, TypeOK
<1> QED
  BY <1>4, <1>5, <1>6, <1>7, <1>8, <1>9, <1>10 DEF Inv

LEMMA TabFacts ==
  ASSUME TypeOK, NEW t \in Tabs
  PROVE  chats[t] \in Seq(Chat) /\ active[t] \in Chats \union {None} /\ created \in Nat
BY UIAssumption DEF TypeOK

\* What is known of the list a tab has.
LEMMA OwnList ==
  ASSUME Inv, NEW t \in Tabs
  PROVE  /\ Honest(chats[t])
         /\ \A q \in Questions : fate[q] = "unasked" => Lacks(chats[t], q)
         /\ sole = t /\ page[t] = "ready" =>
              \A q \in Questions : Counts(q) => Recorded(chats[t], q)
BY UIAssumption DEF Inv, HonestLists, Unasked, Kept, Sole

\* The messages stay, whichever chat is active and whichever are new.
LEMMA SameMessages ==
  ASSUME Inv, NEW t \in Tabs, NEW list, UNCHANGED <<fate, pending>>,
         sole' = t => sole = t,
         \A id, m : Has(list, id, m) <=> Has(chats[t], id, m)
  PROVE  Goes(t, list)
<1>1. Honest(list) /\ \A q \in Questions : fate[q] = "unasked" => Lacks(list, q)
  BY OwnList DEF Honest, Lacks
<1>2. ASSUME sole = t, page[t] = "ready", NEW q \in Questions, Counts(q)'
      PROVE  Recorded(list, q)'
  <2>1. Recorded(chats[t], q)
    BY <1>2, OwnList DEF Counts
  <2> QED
    BY <2>1 DEF Recorded, Expected
<1>3. ASSUME sole' = t, pending[t] # None, fate[pending[t].ask] # "early"
      PROVE  /\ page[t] = "ready" /\ fate[pending[t].ask] = "sent"
             /\ \A id, m : Has(list, id, m) /\ m.ask = pending[t].ask => id = pending[t].chat
  BY <1>3 DEF Inv, Sole, Waits, InPlace
<1> QED
  BY <1>1, <1>2, <1>3 DEF Goes

LEMMA SaveSole ==
  ASSUME TypeOK, NEW t \in Tabs, NEW list, NEW id, saveChats(t, list, id)
  PROVE  sole' \in {sole, Shared}
BY DEF saveChats, SaveUnder, Raises

LEMMA CreateStep ==
  ASSUME Inv, NEW t \in Tabs, createChat(t)
  PROVE  Inv'
<1>1. PICK n : n = created + 1
  OBVIOUS
<1>2. /\ page[t] # "closed" /\ created < MaxChats /\ created' = n
      /\ Remember(t, <<Empty(n)>> \o chats[t], n) /\ saveChats(t, <<Empty(n)>> \o chats[t], n)
      /\ UNCHANGED <<page, busy, pending, fate>>
  BY <1>1 DEF createChat
<1>3. TypeOK
  BY DEF Inv
<1>4. n \in Chats /\ n \in 0..MaxChats
  BY <1>1, <1>2, <1>3, UIAssumption DEF TypeOK, Chats
<1>5. /\ <<Empty(n)>> \o chats[t] \in Seq(Chat)
      /\ \A id, m : Has(<<Empty(n)>> \o chats[t], id, m) <=> Has(chats[t], id, m)
  BY <1>3, <1>4, TabFacts, NewChat
<1>6. PICK list \in Seq(Chat) : list = <<Empty(n)>> \o chats[t]
  BY <1>5
<1>7. Goes(t, list)
  BY <1>2, <1>3, <1>5, <1>6, UIAssumption, SaveSole, SameMessages
<1>8. /\ busy' \in [Tabs -> BOOLEAN] /\ pending' \in [Tabs -> Pending \union {None}]
      /\ fate' \in [Questions -> Fate] /\ \A u \in Tabs \ {t} : pending'[u] = pending[u]
  BY <1>2, <1>3 DEF TypeOK, Fate
<1> QED
  BY <1>2, <1>4, <1>6, <1>7, <1>8, SavingStep

LEMMA SwitchStep ==
  ASSUME Inv, NEW t \in Tabs, NEW id \in Chats, switchChat(t, id)
  PROVE  Inv'
<1>1. /\ IsActive(chats[t], id) /\ Remember(t, chats[t], id) /\ saveChats(t, chats[t], id)
      /\ UNCHANGED <<page, busy, pending, created, fate>>
  BY DEF switchChat
<1>2. TypeOK
  BY DEF Inv
<1>3. page[t] # "closed"
  BY <1>1 DEF Inv, Blank, IsActive
<1>4. PICK list \in Seq(Chat) : list = chats[t]
  BY <1>2, TabFacts
<1>5. Goes(t, list)
  BY <1>1, <1>2, <1>4, UIAssumption, SaveSole, SameMessages
<1>6. /\ busy' \in [Tabs -> BOOLEAN] /\ pending' \in [Tabs -> Pending \union {None}]
      /\ fate' \in [Questions -> Fate] /\ \A u \in Tabs \ {t} : pending'[u] = pending[u]
      /\ created' \in 0..MaxChats
  BY <1>1, <1>2 DEF TypeOK, Fate
<1> QED
  BY <1>1, <1>3, <1>4, <1>5, <1>6, SavingStep

\* The chat a question is asked in, in a list with the same messages.
LEMMA ActiveChat ==
  ASSUME TypeOK, NEW t \in Tabs, NEW chat, chat = ensureActiveChat(t), chat.made <= MaxChats
  PROVE  /\ chat.list \in Seq(Chat) /\ chat.id \in Chats /\ chat.made \in 0..MaxChats
         /\ \A id, m : Has(chat.list, id, m) <=> Has(chats[t], id, m)
<1>1. chats[t] \in Seq(Chat) /\ created \in Nat /\ created \in 0..MaxChats
  BY TabFacts DEF TypeOK
<1>2. CASE IsActive(chats[t], active[t])
  <2>1. chat.list = chats[t] /\ chat.id = active[t] /\ chat.made = created
    BY <1>2 DEF ensureActiveChat
  <2>2. active[t] \in Chats
    BY <1>1, <1>2, ChatFacts DEF IsActive
  <2> QED
    BY <1>1, <2>1, <2>2
<1>3. CASE ~IsActive(chats[t], active[t])
  <2>1. PICK n : n = created + 1
    OBVIOUS
  <2>2. chat.list = <<Empty(n)>> \o chats[t] /\ chat.id = n /\ chat.made = n
    BY <1>3, <2>1 DEF ensureActiveChat
  <2>3. n \in Chats /\ n \in 0..MaxChats
    BY <1>1, <2>1, <2>2, UIAssumption DEF Chats
  <2> QED
    BY <1>1, <2>2, <2>3, NewChat
<1> QED
  BY <1>2, <1>3

\* The chat a question is asked in is in the list.
LEMMA ActiveIsThere ==
  ASSUME TypeOK, NEW t \in Tabs, NEW chat, chat = ensureActiveChat(t), chat.made <= MaxChats
  PROVE  IsActive(chat.list, chat.id)
<1>1. CASE IsActive(chats[t], active[t])
  BY <1>1 DEF ensureActiveChat
<1>2. CASE ~IsActive(chats[t], active[t])
  <2>1. PICK n, list : n = created + 1 /\ list = chats[t]
    OBVIOUS
  <2>2. chat.list = <<Empty(n)>> \o list /\ chat.id = n /\ chat.made = n
    BY <1>2, <2>1 DEF ensureActiveChat
  <2>3. n \in Chats /\ list \in Seq(Chat)
    BY <2>1, <2>2, TabFacts, UIAssumption DEF Chats
  <2>4. Empty(n) \in Chat /\ Empty(n).id = n
    BY <2>3 DEF Empty, Chat
  <2>5. <<Empty(n)>> \in Seq(Chat) /\ Len(<<Empty(n)>>) = 1 /\ <<Empty(n)>>[1] = Empty(n)
    BY <2>4
  <2>6. /\ chat.list \in Seq(Chat) /\ Len(chat.list) = 1 + Len(list)
        /\ \A i \in 1..Len(chat.list) :
             chat.list[i] = IF i <= 1 THEN <<Empty(n)>>[i] ELSE list[i - 1]
    BY <2>2, <2>3, <2>5, ConcatProperties
  <2>7. 1 \in DOMAIN chat.list /\ chat.list[1] = Empty(n)
    BY <2>3, <2>5, <2>6, SeqFacts
  <2> QED
    BY <2>2, <2>4, <2>7 DEF IsActive
<1> QED
  BY <1>1, <1>2

LEMMA AskStep ==
  ASSUME Inv, NEW t \in Tabs, NEW q \in Questions, ask(t, q)
  PROVE  Inv'
<1> DEFINE asked == [ask |-> q, reply |-> Thinking]
<1>1. PICK chat : chat = ensureActiveChat(t)
  OBVIOUS
<1>2. PICK list : list = Asked(chat.list, chat.id, q)
  OBVIOUS
<1>3. /\ page[t] # "closed" /\ busy' = [busy EXCEPT ![t] = TRUE]
      /\ fate[q] = "unasked" /\ chat.made <= MaxChats /\ created' = chat.made
      /\ page' = page
      /\ fate' = [fate EXCEPT ![q] = IF page[t] = "ready" THEN "sent" ELSE "early"]
  BY <1>1, <1>2 DEF ask
<1>4. \/ /\ Remember(t, list, chat.id) /\ saveChats(t, list, chat.id)
         /\ pending' = IF Fits(storageKey(t), list)
                       THEN [pending EXCEPT ![t] = [chat |-> chat.id, ask |-> q]] ELSE pending
      \/ /\ Remember(t, chat.list, chat.id) /\ Raises(t)
         /\ UNCHANGED <<storage, writer, pending>>
      \/ /\ Remember(t, list, chat.id) /\ Stores(t, storageKey(t), chat.list, chat.id)
         /\ Raises(t) /\ UNCHANGED pending
  BY <1>1, <1>2 DEF ask
<1>5. TypeOK
  BY DEF Inv
<1>6. /\ chat.list \in Seq(Chat) /\ chat.id \in Chats /\ chat.made \in 0..MaxChats
      /\ \A id, m : Has(chat.list, id, m) <=> Has(chats[t], id, m)
      /\ IsActive(chat.list, chat.id)
  BY <1>1, <1>3, <1>5, ActiveChat, ActiveIsThere
<1>7. /\ list \in Seq(Chat)
      /\ \A id, m : Has(list, id, m) <=> Has(chats[t], id, m) \/ (id = chat.id /\ m = asked)
  <2>1. PICK l \in Seq(Chat), c \in Chats : l = chat.list /\ c = chat.id
    BY <1>6
  <2>2. /\ Asked(l, c, q) \in Seq(Chat)
        /\ \A id, m : Has(Asked(l, c, q), id, m) <=>
                        Has(l, id, m) \/ (id = c /\ IsActive(l, c) /\ m = asked)
    BY AskedChats, AskedHas
  <2> QED
    BY <1>2, <1>6, <2>1, <2>2
<1>8. asked.ask = q /\ asked.reply = Thinking
  OBVIOUS
<1>9. /\ fate' \in [Questions -> Fate] /\ fate'[q] = IF page[t] = "ready" THEN "sent" ELSE "early"
      /\ \A p \in Questions \ {q} : fate'[p] = fate[p]
  BY <1>3, <1>5 DEF TypeOK, Fate
<1>10. /\ busy' \in [Tabs -> BOOLEAN] /\ pending' \in [Tabs -> Pending \union {None}]
       /\ \A u \in Tabs \ {t} : pending'[u] = pending[u]
  <2>1. [chat |-> chat.id, ask |-> q] \in Pending
    BY <1>6 DEF Pending
  <2> QED
    BY <1>3, <1>4, <1>5, <2>1 DEF TypeOK
<1>11. Lacks(chats[t], q) /\ Honest(chats[t])
  BY <1>3, OwnList
<1> HIDE DEF asked
<1>12. Honest(list) /\ \A p \in Questions : fate'[p] = "unasked" => fate[p] = "unasked" /\ Lacks(list, p)
  <2>1. Honest(list)
    BY <1>7, <1>8, <1>11 DEF Honest
  <2>2. ASSUME NEW p \in Questions, fate'[p] = "unasked"
        PROVE  fate[p] = "unasked" /\ Lacks(list, p)
    <3>1. p # q /\ fate[p] = "unasked"
      BY <1>9, <2>2
    <3>2. Lacks(chats[t], p)
      BY <3>1, OwnList
    <3> QED
      BY <1>7, <1>8, <3>1, <3>2 DEF Lacks
  <2> QED
    BY <2>1, <2>2
<1>13. ASSUME page[t] # "ready", NEW p \in Questions, Counts(p)'
       PROVE  fate'[p] = fate[p]
  BY <1>9, <1>13 DEF Counts
<1>14. ASSUME sole = t, page[t] = "ready", NEW p \in Questions, Counts(p)'
       PROVE  Recorded(list, p)'
  <2>1. CASE p = q
    <3>1. Expected(q)' = Thinking
      BY <1>9, <1>14 DEF Expected
    <3>2. Has(list, chat.id, [ask |-> q, reply |-> Thinking])
      BY <1>7 DEF asked
    <3>3. \A id, m : Has(list, id, m) /\ m.ask = q => m.reply = Thinking
      BY <1>7, <1>8, <1>11 DEF Lacks
    <3> QED
      BY <2>1, <3>1, <3>2, <3>3 DEF Recorded
  <2>2. CASE p # q
    <3>1. Recorded(chats[t], p) /\ fate'[p] = fate[p]
      BY <1>9, <1>14, <2>2, OwnList DEF Counts
    <3>2. Expected(p)' = Expected(p)
      BY <3>1 DEF Expected
    <3>3. \E id : Has(list, id, [ask |-> p, reply |-> Expected(p)])
      BY <1>7, <3>1 DEF Recorded
    <3>4. \A id, m : Has(list, id, m) /\ m.ask = p => m.reply = Expected(p)
      BY <1>7, <1>8, <2>2, <3>1 DEF Recorded
    <3> QED
      BY <3>2, <3>3, <3>4 DEF Recorded
  <2> QED
    BY <2>1, <2>2
<1>15. ASSUME saveChats(t, list, chat.id), sole' = t, fate'[pending'[t].ask] # "early", pending'[t] # None,
              pending' = IF Fits(storageKey(t), list)
                         THEN [pending EXCEPT ![t] = [chat |-> chat.id, ask |-> q]] ELSE pending
       PROVE  /\ page[t] = "ready" /\ fate'[pending'[t].ask] = "sent"
              /\ \A id, m : Has(list, id, m) /\ m.ask = pending'[t].ask => id = pending'[t].chat
  <2>1. Fits(storageKey(t), list)
    BY <1>15, UIAssumption DEF saveChats, SaveUnder, Raises
  <2>2. pending'[t].chat = chat.id /\ pending'[t].ask = q
    BY <1>5, <1>15, <2>1 DEF TypeOK
  <2>3. \A id, m : Has(list, id, m) /\ m.ask = q => id = chat.id
    BY <1>7, <1>11 DEF Lacks
  <2> QED
    BY <1>9, <1>15, <2>2, <2>3
<1>16. CASE /\ Remember(t, list, chat.id) /\ saveChats(t, list, chat.id)
            /\ pending' = IF Fits(storageKey(t), list)
                          THEN [pending EXCEPT ![t] = [chat |-> chat.id, ask |-> q]] ELSE pending
  <2>1. Goes(t, list)
    BY <1>12, <1>13, <1>14, <1>15, <1>16 DEF Goes
  <2> QED
    BY <1>3, <1>6, <1>7, <1>9, <1>10, <1>16, <2>1, SavingStep
<1>17. PICK before \in Seq(Chat), c \in Chats \union {None} : before = chat.list /\ c = chat.id
  BY <1>6
<1>18. /\ Honest(before)
       /\ \A p \in Questions : fate'[p] = "unasked" => fate[p] = "unasked" /\ Lacks(before, p)
  <2>1. \A i, m : Has(before, i, m) <=> Has(chats[t], i, m)
    BY <1>6, <1>17
  <2>2. Honest(before)
    BY <1>11, <2>1 DEF Honest
  <2>3. ASSUME NEW p \in Questions, fate'[p] = "unasked"
        PROVE  fate[p] = "unasked" /\ Lacks(before, p)
    <3>1. p # q /\ fate[p] = "unasked"
      BY <1>9, <2>3
    <3>2. Lacks(chats[t], p)
      BY <3>1, OwnList
    <3> QED
      BY <2>1, <3>1, <3>2 DEF Lacks
  <2> QED
    BY <2>2, <2>3
<1>19. /\ storage \in [Keys -> Stored] /\ writer \in Tabs \union {None}
       /\ page' \in [Tabs -> {"closed", "loading", "ready"}] /\ page'[t] # "closed"
       /\ \A k \in Keys : Honest(storage[k].chats)
       /\ \A p \in Questions : fate[p] = "unasked" => \A k \in Keys : Lacks(storage[k].chats, p)
  BY <1>3, <1>5 DEF TypeOK, Stored, Inv, HonestLists, Unasked
<1>20. CASE /\ Remember(t, chat.list, chat.id) /\ Raises(t)
            /\ UNCHANGED <<storage, writer, pending>>
  <2>1. Remember(t, before, c) /\ Raises(t) /\ storage' = storage /\ writer' = writer
    BY <1>17, <1>20
  <2> QED
    BY <1>3, <1>6, <1>9, <1>10, <1>18, <1>19, <2>1, RaisingStep
<1>21. CASE /\ Remember(t, list, chat.id) /\ Stores(t, storageKey(t), chat.list, chat.id)
            /\ Raises(t) /\ UNCHANGED pending
  <2>1. PICK key \in Keys : key = storageKey(t)
    BY DEF storageKey, Keys
  <2>2. Stores(t, key, before, c) /\ Remember(t, list, c) /\ Raises(t)
    BY <1>17, <1>21, <2>1
  <2>3. /\ storage' \in [Keys -> Stored] /\ writer' \in Tabs \union {None}
        /\ storage'[key].chats = before /\ \A k \in Keys \ {key} : storage'[k] = storage[k]
        /\ writer' = IF key = "user" THEN t ELSE writer
    BY <1>5, <2>2, StoresFacts
  <2>4. writer' = t \/ (writer' = writer /\ storage'["user"].chats = storage["user"].chats)
    BY <2>3 DEF Keys
  <2>5. /\ \A k \in Keys : Honest(storage'[k].chats)
        /\ \A p \in Questions : fate'[p] = "unasked" => \A k \in Keys : Lacks(storage'[k].chats, p)
    BY <1>18, <1>19, <2>3
  <2> QED
    BY <1>3, <1>6, <1>7, <1>9, <1>10, <1>12, <1>19, <2>2, <2>3, <2>4, <2>5, RaisingStep
<1> QED
  BY <1>4, <1>16, <1>20, <1>21

LEMMA SettleStep ==
  ASSUME Inv, NEW t \in Tabs, pending[t] # None,
         NEW reply, NEW end,
         \/ reply = pending[t].ask /\ end = "answered"
         \/ reply = Failed /\ end = "failed",
         Settle(t, reply, end)
  PROVE  Inv'
<1>1. TypeOK
  BY DEF Inv
<1>2. PICK c \in Chats, q \in Questions : c = pending[t].chat /\ q = pending[t].ask
  BY <1>1 DEF TypeOK, Pending
<1>3. PICK list : list = Filled(chats[t], c, q, reply)
  OBVIOUS
<1>4. /\ Remember(t, list, active[t]) /\ saveChats(t, list, active[t])
      /\ fate' = [fate EXCEPT ![q] = IF @ = "early" THEN @ ELSE end]
      /\ pending' = [pending EXCEPT ![t] = None]
      /\ busy' = [busy EXCEPT ![t] = ~Fits(storageKey(t), list)]
      /\ UNCHANGED <<page, created>>
  BY <1>2, <1>3 DEF Settle
<1>5. page[t] # "closed"
  BY DEF Inv, Blank
<1>6. reply \in Questions \union {Thinking, Failed} /\ chats[t] \in Seq(Chat)
  BY <1>1, <1>2, TabFacts
<1>7. PICK filled : filled = [ask |-> q, reply |-> reply]
  OBVIOUS
<1>8. filled.ask = q /\ filled.reply = reply
  BY <1>7
<1>9. /\ list \in Seq(Chat)
      /\ \A id, m : Has(list, id, m) <=>
            \/ Has(chats[t], id, m) /\ ~(id = c /\ m.ask = q)
            \/ id = c /\ m = filled /\ \E old : Has(chats[t], c, old) /\ old.ask = q
  BY <1>3, <1>6, <1>7, FilledChats, FilledHas
<1>10. /\ fate' \in [Questions -> Fate]
       /\ fate'[q] = IF fate[q] = "early" THEN "early" ELSE end
       /\ \A p \in Questions \ {q} : fate'[p] = fate[p]
  BY <1>1, <1>4 DEF TypeOK, Fate
<1>11. /\ busy' \in [Tabs -> BOOLEAN] /\ pending' \in [Tabs -> Pending \union {None}]
       /\ pending'[t] = None /\ \A u \in Tabs \ {t} : pending'[u] = pending[u]
       /\ created' \in 0..MaxChats
  <2>1. (~Fits(storageKey(t), list)) \in BOOLEAN
    BY DEF Fits
  <2> QED
    BY <1>1, <1>4, <2>1 DEF TypeOK
<1>12. Honest(list) /\ \A p \in Questions : fate'[p] = "unasked" => fate[p] = "unasked" /\ Lacks(list, p)
  <2>1. Honest(list)
    <3>1. Honest(chats[t]) /\ filled.reply \in {Thinking, Failed, filled.ask}
      BY <1>2, <1>8, OwnList
    <3> QED
      BY <1>9, <3>1 DEF Honest
  <2>2. ASSUME NEW p \in Questions, fate'[p] = "unasked"
        PROVE  fate[p] = "unasked" /\ Lacks(list, p)
    <3>1. p # q /\ fate[p] = "unasked"
      BY <1>10, <2>2
    <3>2. Lacks(chats[t], p)
      BY <3>1, OwnList
    <3> QED
      BY <1>8, <1>9, <3>1, <3>2 DEF Lacks
  <2> QED
    BY <2>1, <2>2
<1>13. ASSUME sole = t, fate[q] # "early"
       PROVE  /\ page[t] = "ready" /\ fate[q] = "sent"
              /\ \A id, m : Has(chats[t], id, m) /\ m.ask = q => id = c
  BY <1>2, <1>13 DEF Inv, Sole, Waits, InPlace
<1>14. ASSUME sole = t, page[t] # "ready", NEW p \in Questions, Counts(p)'
       PROVE  fate'[p] = fate[p]
  BY <1>10, <1>13, <1>14
<1>15. ASSUME sole = t, page[t] = "ready", NEW p \in Questions, Counts(p)'
       PROVE  Recorded(list, p)'
  <2>1. CASE p = q
    <3>1. fate[q] = "sent" /\ \A id, m : Has(chats[t], id, m) /\ m.ask = q => id = c
      BY <1>10, <1>13, <1>15, <2>1 DEF Counts
    <3>2. Expected(q)' = reply
      BY <1>2, <1>10, <3>1 DEF Expected
    <3>3. Recorded(chats[t], q)
      BY <1>15, <3>1, OwnList DEF Counts
    <3>4. PICK id : Has(chats[t], id, [ask |-> q, reply |-> Expected(q)])
      BY <3>3 DEF Recorded
    <3>5. \E old : Has(chats[t], c, old) /\ old.ask = q
      <4>1. PICK old : old = [ask |-> q, reply |-> Expected(q)]
        OBVIOUS
      <4>2. old.ask = q
        BY <4>1
      <4> QED
        BY <3>1, <3>4, <4>1, <4>2
    <3>6. Has(list, c, [ask |-> q, reply |-> reply])
      BY <1>7, <1>9, <3>5
    <3>7. \A i, m : Has(list, i, m) /\ m.ask = q => m.reply = reply
      BY <1>8, <1>9, <3>1
    <3> QED
      BY <2>1, <3>2, <3>6, <3>7 DEF Recorded
  <2>2. CASE p # q
    <3>1. Recorded(chats[t], p) /\ fate'[p] = fate[p]
      BY <1>10, <1>15, <2>2, OwnList DEF Counts
    <3>2. Expected(p)' = Expected(p)
      BY <3>1 DEF Expected
    <3>3. \E id : Has(list, id, [ask |-> p, reply |-> Expected(p)])
      <4>1. PICK m : m = [ask |-> p, reply |-> Expected(p)]
        OBVIOUS
      <4>2. m.ask = p
        BY <4>1
      <4> QED
        BY <1>9, <2>2, <3>1, <4>1, <4>2 DEF Recorded
    <3>4. \A id, m : Has(list, id, m) /\ m.ask = p => m.reply = Expected(p)
      BY <1>8, <1>9, <2>2, <3>1 DEF Recorded
    <3> QED
      BY <3>2, <3>3, <3>4 DEF Recorded
  <2> QED
    BY <2>1, <2>2
<1>16. Goes(t, list)
  BY <1>11, <1>12, <1>14, <1>15 DEF Goes
<1>17. active[t] \in Chats \union {None}
  BY <1>1, TabFacts
<1> QED
  BY <1>4, <1>5, <1>9, <1>10, <1>11, <1>16, <1>17, SavingStep

-----------------------------------------------------------------------------
(* A page that is left or loaded again.                                    *)

LEMMA AbandonFacts ==
  ASSUME Inv, NEW t \in Tabs, Abandon(t)
  PROVE  /\ busy' \in [Tabs -> BOOLEAN] /\ pending' \in [Tabs -> Pending \union {None}]
         /\ pending'[t] = None /\ \A u \in Tabs \ {t} : pending'[u] = pending[u]
         /\ fate' \in [Questions -> Fate]
         /\ \A q \in Questions : \/ fate'[q] = fate[q]
                                 \/ fate'[q] = "abandoned" /\ pending[t] # None
                                     /\ q = pending[t].ask /\ fate[q] # "early"
<1>1. /\ busy' = [busy EXCEPT ![t] = FALSE] /\ pending' = [pending EXCEPT ![t] = None]
      /\ fate' = IF pending[t] = None \/ fate[pending[t].ask] = "early" THEN fate
                 ELSE [fate EXCEPT ![pending[t].ask] = "abandoned"]
  BY DEF Abandon
<1>2. /\ busy \in [Tabs -> BOOLEAN] /\ pending \in [Tabs -> Pending \union {None}]
      /\ fate \in [Questions -> Fate]
  BY DEF Inv, TypeOK, Fate
<1>3. CASE pending[t] = None \/ fate[pending[t].ask] = "early"
  BY <1>1, <1>2, <1>3
<1>4. CASE ~(pending[t] = None \/ fate[pending[t].ask] = "early")
  <2>1. PICK q \in Questions : q = pending[t].ask
    BY <1>2, <1>4 DEF Pending
  <2>2. fate' = [fate EXCEPT ![q] = "abandoned"] /\ "abandoned" \in Fate
    BY <1>1, <1>4, <2>1 DEF Fate
  <2>3. fate' \in [Questions -> Fate]
    BY <1>2, <2>2
  <2>4. \A p \in Questions : fate'[p] = IF p = q THEN "abandoned" ELSE fate[p]
    BY <1>2, <2>2
  <2> QED
    BY <1>1, <1>2, <1>4, <2>1, <2>3, <2>4
<1> QED
  BY <1>3, <1>4

\* What stands in localStorage stays; a question left behind is expected to be
\* thinking, as it was when it was sent.
LEMMA LeavingStep ==
  ASSUME Inv, NEW t \in Tabs, Remember(t, <<>>, None), Abandon(t), created' = created,
         NEW where \in {"closed", "loading"}, page' = [page EXCEPT ![t] = where],
         storage' \in [Keys -> Stored], writer' \in Tabs \union {None},
         raised' \in [Tabs -> BOOLEAN], sole' \in Tabs \union {None, Shared},
         \A k \in Keys : storage'[k].chats \in {chats[t], storage[k].chats},
         \/ writer' = t
         \/ /\ writer' = writer /\ storage'["user"].chats = storage["user"].chats
            /\ \A u \in Tabs \ {t} : raised'[u] = raised[u],
         sole' # Shared => /\ sole' = t /\ sole \in {None, t}
                           /\ \A u \in Tabs \ {t} : page[u] = "closed"
                           /\ storage'["user"].chats = storage["user"].chats
  PROVE  Inv'
<1>1. TypeOK /\ "user" \in Keys
  BY DEF Inv, Keys
<1>2. /\ busy' \in [Tabs -> BOOLEAN] /\ pending' \in [Tabs -> Pending \union {None}]
      /\ pending'[t] = None /\ \A u \in Tabs \ {t} : pending'[u] = pending[u]
      /\ fate' \in [Questions -> Fate]
      /\ \A q \in Questions : \/ fate'[q] = fate[q]
                              \/ fate'[q] = "abandoned" /\ pending[t] # None
                                  /\ q = pending[t].ask /\ fate[q] # "early"
  BY AbandonFacts
<1>3. /\ chats' \in [Tabs -> Seq(Chat)] /\ active' \in [Tabs -> Chats \union {None}]
      /\ chats'[t] = <<>> /\ \A u \in Tabs \ {t} : chats'[u] = chats[u]
      /\ page'[t] = where /\ \A u \in Tabs \ {t} : page'[u] = page[u]
  BY <1>1, EmptyList DEF Remember, TypeOK
<1>4. TypeOK'
  BY <1>1, <1>2, <1>3 DEF TypeOK, Stored, Fate
<1>5. HonestLists'
  <2>1. Honest(<<>>)
    BY EmptyList DEF Honest
  <2> QED
    BY <1>3, <2>1 DEF Inv, HonestLists
<1>6. Unasked'
  <2> SUFFICES ASSUME NEW q \in Questions, fate'[q] = "unasked"
               PROVE  /\ \A u \in Tabs : Lacks(chats'[u], q)
                      /\ \A k \in Keys : Lacks(storage'[k].chats, q)
    BY DEF Unasked, Lacks
  <2>1. fate[q] = "unasked"
    BY <1>2
  <2>2. /\ \A u \in Tabs : Lacks(chats[u], q)
        /\ \A k \in Keys : Lacks(storage[k].chats, q)
    BY <2>1 DEF Inv, Unasked
  <2>3. Lacks(<<>>, q)
    BY EmptyList DEF Lacks
  <2>4. \A u \in Tabs : Lacks(chats'[u], q)
    BY <1>3, <2>2, <2>3
  <2>5. ASSUME NEW k \in Keys PROVE Lacks(storage'[k].chats, q)
    <3>1. storage'[k].chats \in {chats[t], storage[k].chats}
      OBVIOUS
    <3> QED
      BY <2>2, <3>1
  <2> QED
    BY <2>4, <2>5
<1>7. Blank'
  <2> SUFFICES ASSUME NEW u \in Tabs, page'[u] = "closed"
               PROVE  chats'[u] = <<>> /\ pending'[u] = None
    BY DEF Blank
  <2>1. CASE u = t
    BY <1>2, <1>3, <2>1
  <2>2. CASE u # t
    <3>1. page'[u] = page[u] /\ chats'[u] = chats[u] /\ pending'[u] = pending[u]
      BY <1>2, <1>3, <2>2
    <3> QED
      BY <3>1 DEF Inv, Blank
  <2> QED
    BY <2>1, <2>2
<1>8. Kept'
  <2> SUFFICES ASSUME sole' # Shared, NEW q \in Questions, Counts(q)'
               PROVE  Recorded(storage["user"].chats, q)'
    BY DEF Kept
  <2>1. sole \in {None, t} /\ sole # Shared
    BY UIAssumption
  <2>2. Counts(q) /\ Expected(q)' = Expected(q)
    <3>1. CASE fate'[q] = fate[q]
      BY <3>1 DEF Counts, Expected
    <3>2. CASE fate'[q] # fate[q]
      <4>1. /\ fate'[q] = "abandoned" /\ pending[t] # None
            /\ q = pending[t].ask /\ fate[q] # "early"
        BY <1>2, <3>2
      <4>2. sole = t
        BY <2>1, <4>1, UIAssumption DEF Inv, Sole, Blank
      <4>3. fate[q] = "sent"
        BY <4>1, <4>2 DEF Inv, Sole, Waits
      <4> QED
        BY <4>1, <4>3 DEF Counts, Expected
    <3> QED
      BY <3>1, <3>2
  <2>3. Recorded(storage["user"].chats, q)
    BY <2>1, <2>2 DEF Inv, Kept
  <2> QED
    BY <2>2, <2>3 DEF Recorded
<1>9. Sole'
  <2> SUFFICES ASSUME sole' # Shared PROVE Sole'
    BY UIAssumption DEF Sole
  <2>1. sole' = t /\ \A u \in Tabs \ {t} : page'[u] = "closed"
    BY <1>3
  <2>2. Waits(t)'
    BY <1>2 DEF Waits
  <2> QED
    BY <1>3, <2>1, <2>2 DEF Sole, Waits, InPlace
<1>10. Viewed'
  BY <1>1, <1>3 DEF Inv, Viewed, TypeOK
<1> QED
  BY <1>4, <1>5, <1>6, <1>7, <1>8, <1>9, <1>10 DEF Inv

LEMMA StorageFacts ==
  ASSUME TypeOK
  PROVE  /\ storage \in [Keys -> Stored] /\ writer \in Tabs \union {None}
         /\ sole \in Tabs \union {None, Shared} /\ "user" \in Keys
BY DEF TypeOK, Stored, Keys

LEMMA OpenStep ==
  ASSUME Inv, NEW t \in Tabs, Open(t)
  PROVE  Inv'
<1>1. /\ page' = [page EXCEPT ![t] = "loading"] /\ Remember(t, <<>>, None) /\ Abandon(t)
      /\ raised' = [raised EXCEPT ![t] = FALSE]
      /\ sole' = IF sole \in {None, t} THEN t ELSE Shared
      /\ UNCHANGED <<storage, created, writer>>
  BY DEF Open
<1>2. TypeOK
  BY DEF Inv
<1>3. /\ raised' \in [Tabs -> BOOLEAN] /\ \A u \in Tabs \ {t} : raised'[u] = raised[u]
      /\ sole' \in Tabs \union {None, Shared}
  BY <1>1, <1>2 DEF TypeOK
<1>4. ASSUME sole' # Shared
      PROVE  /\ sole' = t /\ sole \in {None, t}
             /\ \A u \in Tabs \ {t} : page[u] = "closed"
  BY <1>1, <1>4, UIAssumption DEF Inv, Sole
<1> QED
  BY <1>1, <1>2, <1>3, <1>4, StorageFacts, LeavingStep

LEMMA CloseStep ==
  ASSUME Inv, NEW t \in Tabs, Close(t)
  PROVE  Inv'
<1>1. /\ page[t] # "closed" /\ page' = [page EXCEPT ![t] = "closed"]
      /\ Remember(t, <<>>, None) /\ Abandon(t) /\ raised' = [raised EXCEPT ![t] = FALSE]
      /\ UNCHANGED <<storage, created, writer, sole>>
  BY DEF Close
<1>2. TypeOK
  BY DEF Inv
<1>3. raised' \in [Tabs -> BOOLEAN] /\ \A u \in Tabs \ {t} : raised'[u] = raised[u]
  BY <1>1, <1>2 DEF TypeOK
<1>4. ASSUME sole' # Shared
      PROVE  /\ sole' = t /\ sole \in {None, t}
             /\ \A u \in Tabs \ {t} : page[u] = "closed"
  BY <1>1, <1>4, UIAssumption DEF Inv, Sole
<1> QED
  BY <1>1, <1>2, <1>3, <1>4, StorageFacts, LeavingStep

LEMMA SignedOutStep ==
  ASSUME Inv, NEW t \in Tabs, SignedOut(t)
  PROVE  Inv'
<1>1. /\ pending[t] # None /\ saveChats(t, chats[t], active[t])
      /\ page' = [page EXCEPT ![t] = "closed"]
      /\ Remember(t, <<>>, None) /\ Abandon(t) /\ created' = created
  BY DEF SignedOut
<1>2. TypeOK
  BY DEF Inv
<1>3. PICK list \in Seq(Chat), id \in Chats \union {None} : list = chats[t] /\ id = active[t]
  BY <1>2, TabFacts
<1>4. saveChats(t, list, id)
  BY <1>1, <1>3
<1>5. /\ storage' \in [Keys -> Stored] /\ writer' \in Tabs \union {None}
      /\ raised' \in [Tabs -> BOOLEAN] /\ sole' \in Tabs \union {None, Shared}
      /\ \A k \in Keys : storage'[k].chats \in {list, storage[k].chats}
  BY <1>2, <1>4, SaveFacts
<1>6. \/ /\ page[t] = "ready" /\ storage'["user"].chats = list /\ writer' = t
         /\ UNCHANGED <<raised, sole>>
      \/ /\ page[t] # "ready" /\ storage'["user"].chats = storage["user"].chats
         /\ UNCHANGED <<writer, raised, sole>>
      \/ /\ UNCHANGED <<storage, writer>> /\ sole' = Shared
         /\ raised'[t] /\ \A u \in Tabs \ {t} : raised'[u] = raised[u]
  BY <1>2, <1>4, SaveFacts
<1>7. page[t] # "closed"
  BY <1>1 DEF Inv, Blank
<1>8. ASSUME sole' # Shared
      PROVE  /\ sole' = t /\ sole \in {None, t}
             /\ \A u \in Tabs \ {t} : page[u] = "closed"
             /\ storage'["user"].chats = storage["user"].chats
  <2>1. sole' = sole /\ sole = t
    BY <1>6, <1>7, <1>8 DEF Inv, Sole
  <2>2. page[t] = "ready" => chats[t] = storage["user"].chats
    BY <2>1 DEF Inv, Sole
  <2> QED
    BY <1>3, <1>6, <1>8, <2>1, <2>2 DEF Inv, Sole
<1>9. \/ writer' = t
      \/ /\ writer' = writer /\ storage'["user"].chats = storage["user"].chats
         /\ \A u \in Tabs \ {t} : raised'[u] = raised[u]
  BY <1>6
<1> QED
  BY <1>1, <1>3, <1>5, <1>8, <1>9, LeavingStep

-----------------------------------------------------------------------------
(* bootstrap: what localStorage holds is shown, or a first chat saved.      *)

\* A first chat, in an empty list.
LEMMA FirstChat ==
  ASSUME TypeOK, created < MaxChats, NEW n, n = created + 1
  PROVE  /\ n \in Chats /\ n \in 0..MaxChats /\ <<Empty(n)>> \in Seq(Chat)
         /\ \A i, m : ~Has(<<Empty(n)>>, i, m)
<1>1. n \in Chats /\ n \in 0..MaxChats
  BY UIAssumption DEF TypeOK, Chats
<1>2. PICK list : list = <<Empty(n)>>
  OBVIOUS
<1>3. list \in Seq(Chat) /\ Len(list) = 1 /\ list[1] = Empty(n)
  BY <1>1, <1>2 DEF Empty, Chat
<1>4. Empty(n).messages = <<>>
  BY DEF Empty
<1>5. \A i, m : ~Has(list, i, m)
  BY <1>3, <1>4, SeqFacts DEF Has, Says
<1> QED
  BY <1>1, <1>2, <1>3, <1>5

\* createChat raises.
LEMMA BootstrapRaises ==
  ASSUME Inv, NEW t \in Tabs, page' = [page EXCEPT ![t] = "ready"],
         UNCHANGED <<busy, pending, fate>>, created < MaxChats, created' = created + 1,
         Remember(t, <<Empty(created')>>, created'), Raises(t), UNCHANGED <<storage, writer>>
  PROVE  Inv'
<1>1. TypeOK
  BY DEF Inv
<1>2. PICK n : n = created'
  OBVIOUS
<1>3. PICK list : list = <<Empty(n)>>
  OBVIOUS
<1>4. n \in Chats /\ n \in 0..MaxChats /\ list \in Seq(Chat) /\ \A i, m : ~Has(list, i, m)
  BY <1>1, <1>2, <1>3, FirstChat
<1>5. Honest(list) /\ \A q \in Questions : Lacks(list, q)
  BY <1>4 DEF Honest, Lacks
<1>6. /\ storage' \in [Keys -> Stored] /\ writer' \in Tabs \union {None}
      /\ page' \in [Tabs -> {"closed", "loading", "ready"}] /\ page'[t] # "closed"
      /\ \A u \in Tabs \ {t} : page'[u] = page[u] /\ pending'[u] = pending[u]
      /\ busy' \in [Tabs -> BOOLEAN] /\ pending' \in [Tabs -> Pending \union {None}]
      /\ fate' \in [Questions -> Fate]
  BY <1>1 DEF TypeOK, Stored, Fate
<1>7. /\ \A k \in Keys : Honest(storage'[k].chats)
      /\ \A q \in Questions : fate'[q] = "unasked" =>
           fate[q] = "unasked" /\ \A k \in Keys : Lacks(storage'[k].chats, q)
  BY DEF Inv, HonestLists, Unasked
<1>8. Remember(t, list, n)
  BY <1>2, <1>3
<1> QED
  BY <1>2, <1>4, <1>5, <1>6, <1>7, <1>8, RaisingStep

\* What is shown is what localStorage holds now.
LEMMA BootstrapSaves ==
  ASSUME Inv, NEW t \in Tabs, page[t] = "loading", page' = [page EXCEPT ![t] = "ready"],
         UNCHANGED <<busy, pending, fate, raised, sole>>,
         \/ /\ storage["user"].chats = <<>> /\ created < MaxChats /\ created' = created + 1
            /\ Remember(t, <<Empty(created')>>, created')
            /\ Stores(t, "user", <<Empty(created')>>, created')
         \/ /\ storage["user"].chats # <<>>
            /\ Remember(t, storage["user"].chats,
                        IF IsActive(storage["user"].chats, storage["user"].active)
                        THEN storage["user"].active ELSE storage["user"].chats[1].id)
            /\ UNCHANGED <<created, storage, writer>>
  PROVE  Inv'
<1>1. TypeOK /\ "user" \in Keys
  BY DEF Inv, Keys
<1>2. /\ page[t] = "loading" /\ page' = [page EXCEPT ![t] = "ready"]
      /\ UNCHANGED <<busy, pending, fate, raised, sole>>
  OBVIOUS
<1>3. PICK list \in Seq(Chat), id \in Chats \union {None} :
        /\ Remember(t, list, id) /\ created' \in 0..MaxChats
        /\ storage' \in [Keys -> Stored] /\ storage'["user"].chats = list
        /\ storage'["anonymous"] = storage["anonymous"] /\ writer' \in {t, writer}
        /\ \/ list = storage["user"].chats
           \/ storage["user"].chats = <<>> /\ (\A i, m : ~Has(list, i, m)) /\ writer' = t
  <2>1. ASSUME storage["user"].chats = <<>>, created < MaxChats, created' = created + 1,
               Remember(t, <<Empty(created')>>, created'),
               Stores(t, "user", <<Empty(created')>>, created')
        PROVE  \E list \in Seq(Chat), id \in Chats \union {None} :
                 /\ Remember(t, list, id) /\ created' \in 0..MaxChats
                 /\ storage' \in [Keys -> Stored] /\ storage'["user"].chats = list
                 /\ storage'["anonymous"] = storage["anonymous"] /\ writer' = t
                 /\ \A i, m : ~Has(list, i, m)
    <3>1. PICK n : n = created'
      OBVIOUS
    <3>2. PICK list : list = <<Empty(n)>>
      OBVIOUS
    <3>3. n \in Chats /\ n \in 0..MaxChats /\ list \in Seq(Chat) /\ \A i, m : ~Has(list, i, m)
      BY <1>1, <2>1, <3>1, <3>2, FirstChat
    <3>4. Stores(t, "user", list, n) /\ n \in Chats \union {None}
      BY <2>1, <3>1, <3>2, <3>3
    <3>5. /\ storage' \in [Keys -> Stored] /\ storage'["user"].chats = list
          /\ storage'["anonymous"] = storage["anonymous"] /\ writer' = t
      BY <1>1, <3>3, <3>4, StoresFacts DEF Keys
    <3>6. Remember(t, list, n)
      BY <2>1, <3>1, <3>2
    <3> QED
      BY <3>1, <3>3, <3>5, <3>6
  <2>2. ASSUME storage["user"].chats # <<>>, NEW id,
               id = IF IsActive(storage["user"].chats, storage["user"].active)
                    THEN storage["user"].active ELSE storage["user"].chats[1].id
        PROVE  storage["user"].chats \in Seq(Chat) /\ id \in Chats \union {None}
    <3>1. PICK list \in Seq(Chat) : list = storage["user"].chats
      BY <1>1, StorageFacts DEF Stored
    <3>2. storage["user"].active \in Chats \union {None}
      BY <1>1, StorageFacts DEF Stored
    <3>3. 1 \in DOMAIN list
      BY <2>2, <3>1
    <3>4. list[1].id \in Chats
      BY <3>3, ChatFacts
    <3> QED
      BY <2>2, <3>1, <3>2, <3>4
  <2>3. \/ /\ storage["user"].chats = <<>> /\ created < MaxChats /\ created' = created + 1
           /\ Remember(t, <<Empty(created')>>, created')
           /\ Stores(t, "user", <<Empty(created')>>, created')
        \/ /\ storage["user"].chats # <<>>
           /\ Remember(t, storage["user"].chats,
                       IF IsActive(storage["user"].chats, storage["user"].active)
                       THEN storage["user"].active ELSE storage["user"].chats[1].id)
           /\ UNCHANGED <<created, storage, writer>>
    OBVIOUS
  <2>4. CASE storage["user"].chats = <<>>
    BY <2>1, <2>3, <2>4
  <2>5. CASE storage["user"].chats # <<>>
    <3>1. PICK id : id = IF IsActive(storage["user"].chats, storage["user"].active)
                         THEN storage["user"].active ELSE storage["user"].chats[1].id
      OBVIOUS
    <3>2. storage["user"].chats \in Seq(Chat) /\ id \in Chats \union {None}
      BY <2>2, <2>5, <3>1
    <3>3. /\ Remember(t, storage["user"].chats, id) /\ created' \in 0..MaxChats
          /\ UNCHANGED <<storage, writer>>
      BY <1>1, <2>3, <2>5, <3>1 DEF TypeOK
    <3> QED
      BY <1>1, <3>2, <3>3, StorageFacts
  <2> QED
    BY <2>4, <2>5
<1>4. /\ chats' \in [Tabs -> Seq(Chat)] /\ active' \in [Tabs -> Chats \union {None}]
      /\ chats'[t] = list /\ \A u \in Tabs \ {t} : chats'[u] = chats[u]
      /\ page'[t] = "ready" /\ \A u \in Tabs \ {t} : page'[u] = page[u]
  BY <1>1, <1>2, <1>3 DEF Remember, TypeOK
<1>5. TypeOK'
  BY <1>1, <1>2, <1>3, <1>4 DEF TypeOK, Stored
<1>6. \A k \in Keys : storage'[k].chats \in {list, storage[k].chats}
  BY <1>3 DEF Keys
<1>7. Honest(list) /\ \A q \in Questions : fate[q] = "unasked" => Lacks(list, q)
  BY <1>1, <1>3 DEF Inv, HonestLists, Unasked, Honest, Lacks
<1>8. HonestLists' /\ Unasked'
  BY <1>2, <1>4, <1>6, <1>7 DEF Inv, HonestLists, Unasked
<1>9. Blank'
  BY <1>2, <1>4 DEF Inv, Blank
<1>10. Kept'
  <2> SUFFICES ASSUME sole # Shared, NEW q \in Questions, Counts(q)
               PROVE  Recorded(storage["user"].chats, q)'
    BY <1>2 DEF Kept, Counts
  <2>1. Recorded(storage["user"].chats, q)
    BY DEF Inv, Kept
  <2>2. list = storage["user"].chats
    BY <1>3, <2>1, EmptyList DEF Recorded
  <2> QED
    BY <1>2, <1>3, <2>1, <2>2 DEF Recorded, Expected
<1>11. Sole'
  <2> SUFFICES ASSUME sole # Shared PROVE Sole'
    BY <1>1, <1>2, UIAssumption DEF Sole, TypeOK
  <2>1. sole' = t /\ \A u \in Tabs \ {t} : page'[u] = "closed"
    BY <1>2, <1>4 DEF Inv, Sole
  <2>2. Waits(t)'
    BY <1>2, <2>1 DEF Inv, Sole, Waits
  <2> QED
    BY <1>3, <1>4, <2>1, <2>2 DEF Sole, Waits, InPlace
<1>12. Viewed'
  BY <1>1, <1>2, <1>3, <1>4 DEF Inv, Viewed, TypeOK
<1> QED
  BY <1>5, <1>8, <1>9, <1>10, <1>11, <1>12 DEF Inv

LEMMA BootstrapStep ==
  ASSUME Inv, NEW t \in Tabs, Bootstrap(t)
  PROVE  Inv'
<1>1. /\ page[t] = "loading" /\ page' = [page EXCEPT ![t] = "ready"]
      /\ UNCHANGED <<busy, pending, fate>>
  BY DEF Bootstrap
<1>2. CASE /\ created < MaxChats /\ created' = created + 1
           /\ Remember(t, <<Empty(created')>>, created')
           /\ Raises(t) /\ UNCHANGED <<storage, writer>>
  BY <1>1, <1>2, BootstrapRaises
<1>3. CASE /\ UNCHANGED <<raised, sole>>
           /\ \/ /\ storage["user"].chats = <<>> /\ created < MaxChats /\ created' = created + 1
                 /\ Remember(t, <<Empty(created')>>, created')
                 /\ Stores(t, "user", <<Empty(created')>>, created')
              \/ /\ storage["user"].chats # <<>>
                 /\ Remember(t, storage["user"].chats,
                             IF IsActive(storage["user"].chats, storage["user"].active)
                             THEN storage["user"].active ELSE storage["user"].chats[1].id)
                 /\ UNCHANGED <<created, storage, writer>>
  BY <1>1, <1>3, BootstrapSaves
<1> QED
  BY <1>2, <1>3 DEF Bootstrap, SaveUnder

-----------------------------------------------------------------------------
(* The theorems.                                                           *)

LEMMA InitIndInv == Init => IndInv
<1> SUFFICES ASSUME Init PROVE Inv
  BY Parts
<1>1. TypeOK
  BY EmptyList, UIAssumption DEF Init, TypeOK, Saved
<1>2. /\ \A t \in Tabs : chats[t] = <<>> /\ pending[t] = None /\ page[t] = "closed"
      /\ \A k \in Keys : storage[k].chats = <<>>
  BY DEF Init, Saved
<1>3. Honest(<<>>) /\ \A q : Lacks(<<>>, q)
  BY EmptyList DEF Honest, Lacks
<1>4. HonestLists /\ Unasked /\ Blank
  BY <1>2, <1>3 DEF HonestLists, Unasked, Blank
<1>5. Kept /\ Viewed
  BY <1>2 DEF Init, Kept, Viewed, Counts
<1>6. Sole
  BY <1>2 DEF Init, Sole, Waits
<1> QED
  BY <1>1, <1>4, <1>5, <1>6 DEF Inv

LEMMA StepIndInv == IndInv /\ [Next]_vars => IndInv'
<1> SUFFICES ASSUME Inv, [Next]_vars PROVE Inv'
  BY Parts, PTL
<1>1. ASSUME NEW t \in Tabs, Respond(t) PROVE Inv'
  <2>1. CASE Answer(t)
    BY <2>1, SettleStep DEF Answer
  <2>2. CASE Error(t)
    BY <2>2, SettleStep DEF Error
  <2> QED
    BY <1>1, <2>1, <2>2, SignedOutStep DEF Respond
<1>2. CASE UNCHANGED vars
  BY <1>2 DEF vars, Inv, TypeOK, HonestLists, Unasked, Blank, Kept, Recorded, Expected,
              Counts, Sole, Waits, InPlace, Viewed
<1> QED
  BY <1>1, <1>2, OpenStep, CloseStep, BootstrapStep, CreateStep, SwitchStep, AskStep DEF Next

LEMMA Invariance == Spec => []IndInv
BY InitIndInv, StepIndInv, PTL DEF Spec

\* An answer stands under the question it answers, and under no other, in every tab
\* and in localStorage, whatever the user does meanwhile (ask, render, loadChats).
THEOREM AnswersStandWhereAsked == Spec => []AnswerWhereAsked
BY Invariance, PTL DEF IndInv

\* localStorage holds the list of one tab, never a mixture (saveChats).
THEOREM StorageIsAView == Spec => []StoredIsOneTabsView
BY Invariance, PTL DEF IndInv

\* With one tab and room in localStorage no question asked after bootstrap is lost,
\* and it stands there with its answer or its error.
THEOREM OneTabLosesNothing == Spec => []NothingLost
BY Invariance, PTL DEF IndInv

=============================================================================
