------------------------------- MODULE ChatUI -------------------------------
(***************************************************************************)
(* The chat page (app/static/index.html) in the tabs of one user's         *)
(* browser: a list of chats in each tab's memory, all of it written to     *)
(* localStorage on every change, and at most one question in flight per    *)
(* tab. A handler runs to its end or to its next await, so an action is    *)
(* one handler, or one of the parts ask and bootstrap fall into.           *)
(* localStorage has a quota: setItem raises when a list does not fit, and  *)
(* whatever follows saveChats in its handler is left out.                  *)
(*                                                                         *)
(* Until /api/me has answered, the page does not know its user and saves   *)
(* under the key "anonymous", which nothing reads.                         *)
(***************************************************************************)
EXTENDS Naturals, FiniteSets, SequencesExt

CONSTANTS
  Tabs,         \* tabs of one browser
  MaxChats,     \* bound on chats ever created
  MaxQuestions, \* bound on questions ever asked
  Quota,        \* what localStorage holds: 1 for a chat, a question or an answer
  Thinking,     \* the text of a pending message
  Failed,       \* the text of an error
  None          \* null

Chats == 1..MaxChats          \* chat ids, in the order uid() makes them
Questions == 1..MaxQuestions
Keys == {"anonymous", "user"}
Shared == "shared"

ASSUME UIAssumption ==
  /\ MaxChats \in Nat /\ MaxQuestions \in Nat /\ Quota \in Nat
  /\ Thinking \notin Questions /\ Failed \notin Questions /\ Thinking # Failed
  /\ None \notin Chats \union Tabs
  /\ Shared \notin Tabs \union {None}

VARIABLES
  page,     \* "closed", "loading" (user is null) or "ready"
  chats,    \* chats of a tab, newest first
  active,   \* activeChatId
  busy,     \* ask is under way
  pending,  \* the message whose answer ask waits for
  storage,  \* localStorage
  created,  \* number of chats created so far
  fate,     \* history: what became of each question
  writer,   \* history: the tab that saved last under the key "user"
  raised,   \* history: whether a saveChats of this page has raised
  sole      \* history: the only tab opened so far; Shared after another one or a raise

vars == <<page, chats, active, busy, pending, storage, created, fate, writer,
          raised, sole>>

\* A question and the answer shown under it: that of the question it names.
Message == [ask : Questions, reply : Questions \union {Thinking, Failed}]
Chat == [id : Chats, messages : Seq(Message)]
Pending == [chat : Chats, ask : Questions]

Empty(id) == [id |-> id, messages |-> <<>>]
Saved(list, id) == [chats |-> list, active |-> id]

storageKey(t) == IF page[t] = "ready" THEN "user" ELSE "anonymous"

Size(list) ==
  FoldLeft(LAMBDA n, c : n + 1 + Len(c.messages)
             + Cardinality({j \in DOMAIN c.messages : c.messages[j].reply # Thinking}), 0, list)

\* Whether setItem of a list under a key succeeds.
Fits(key, list) ==
  Size(list) + Size(storage[CHOOSE k \in Keys : k # key].chats) <= Quota

\* Mutant of saveChats: only what nobody has saved yet is written.
SaveOnce(t, list, id) ==
  LET key == storageKey(t) IN
  /\ storage' = [storage EXCEPT ![key] = IF @.chats = <<>> THEN Saved(list, id) ELSE @]
  /\ writer' = IF key = "user" THEN t ELSE writer
  /\ UNCHANGED <<raised, sole>>

Stores(t, key, list, id) ==
  /\ storage' = [storage EXCEPT ![key] = Saved(list, id)]
  /\ writer' = IF key = "user" THEN t ELSE writer

Raises(t) == raised' = [raised EXCEPT ![t] = TRUE] /\ sole' = Shared

\* setItem by tab t, with what its memory holds after the step.
SaveUnder(key, t, list, id) ==
  IF Fits(key, list) THEN Stores(t, key, list, id) /\ UNCHANGED <<raised, sole>>
  ELSE Raises(t) /\ UNCHANGED <<storage, writer>>

saveChats(t, list, id) == SaveUnder(storageKey(t), t, list, id)

Remember(t, list, id) ==
  /\ chats' = [chats EXCEPT ![t] = list]
  /\ active' = [active EXCEPT ![t] = id]

IsActive(list, id) == \E i \in DOMAIN list : list[i].id = id

InChat(list, id, F(_)) ==
  [i \in DOMAIN list |->
     IF list[i].id = id THEN [list[i] EXCEPT !.messages = F(@)] ELSE list[i]]

\* The question and its pending message, at the end of chat id.
Asked(list, id, q) == InChat(list, id, LAMBDA s : Append(s, [ask |-> q, reply |-> Thinking]))

\* The pending message filled in. A chat that is no longer in the list (it was
\* replaced by loadChats) is not changed where anyone would see it.
Filled(list, id, q, text) ==
  InChat(list, id, LAMBDA s : [j \in DOMAIN s |->
                     IF s[j].ask = q THEN [ask |-> q, reply |-> text] ELSE s[j]])

-----------------------------------------------------------------------------
Init ==
  /\ page = [t \in Tabs |-> "closed"]
  /\ chats = [t \in Tabs |-> <<>>]
  /\ active = [t \in Tabs |-> None]
  /\ busy = [t \in Tabs |-> FALSE]
  /\ pending = [t \in Tabs |-> None]
  /\ storage = [k \in Keys |-> Saved(<<>>, None)]
  /\ created = 0
  /\ fate = [q \in Questions |-> "unasked"]
  /\ writer = None
  /\ raised = [t \in Tabs |-> FALSE]
  /\ sole = None

\* A question nobody waits for any more.
Abandon(t) ==
  /\ busy' = [busy EXCEPT ![t] = FALSE]
  /\ pending' = [pending EXCEPT ![t] = None]
  /\ fate' = IF pending[t] = None \/ fate[pending[t].ask] = "early" THEN fate
             ELSE [fate EXCEPT ![pending[t].ask] = "abandoned"]

\* The page is opened, or loaded again: its memory starts over.
Open(t) ==
  /\ page' = [page EXCEPT ![t] = "loading"]
  /\ Remember(t, <<>>, None)
  /\ Abandon(t)
  /\ raised' = [raised EXCEPT ![t] = FALSE]
  /\ sole' = IF sole \in {None, t} THEN t ELSE Shared
  /\ UNCHANGED <<storage, created, writer>>

\* The tab is closed, or left for another page.
Close(t) ==
  /\ page[t] # "closed"
  /\ page' = [page EXCEPT ![t] = "closed"]
  /\ Remember(t, <<>>, None)
  /\ Abandon(t)
  /\ raised' = [raised EXCEPT ![t] = FALSE]
  /\ UNCHANGED <<storage, created, writer, sole>>

\* bootstrap, after /api/me: loadChats, and a first chat if there is none, saved
\* by createChat under the key of the user it knows now.
Bootstrap(t) ==
  /\ page[t] = "loading"
  /\ page' = [page EXCEPT ![t] = "ready"]
  /\ LET raw == storage["user"] IN
       \/ /\ raw.chats = <<>> /\ created < MaxChats
          /\ created' = created + 1
          /\ Remember(t, <<Empty(created')>>, created')
          /\ SaveUnder("user", t, <<Empty(created')>>, created')
       \/ /\ raw.chats # <<>>
          /\ Remember(t, raw.chats,
                      IF IsActive(raw.chats, raw.active) THEN raw.active ELSE raw.chats[1].id)
          /\ UNCHANGED <<created, storage, writer, raised, sole>>
  /\ UNCHANGED <<busy, pending, fate>>

createChat(t) ==
  /\ page[t] # "closed" /\ created < MaxChats
  /\ created' = created + 1
  /\ Remember(t, <<Empty(created')>> \o chats[t], created')
  /\ saveChats(t, <<Empty(created')>> \o chats[t], created')
  /\ UNCHANGED <<page, busy, pending, fate>>

switchChat(t, id) ==
  /\ id # active[t] /\ IsActive(chats[t], id)
  /\ Remember(t, chats[t], id)
  /\ saveChats(t, chats[t], id)
  /\ UNCHANGED <<page, busy, pending, created, fate>>

\* The list, the active chat and the count of chats after ensureActiveChat.
ensureActiveChat(t) ==
  IF IsActive(chats[t], active[t]) THEN [list |-> chats[t], id |-> active[t], made |-> created]
  ELSE [list |-> <<Empty(created + 1)>> \o chats[t], id |-> created + 1, made |-> created + 1]

\* ask up to the request: ensureActiveChat (which saves a chat it creates), the
\* two messages, saveChats. Both saves stand before the try: if one raises,
\* nothing is sent and busy stays set, and what the first has saved stays saved.
ask(t, q) ==
  /\ page[t] # "closed" /\ ~busy[t]
  /\ busy' = [busy EXCEPT ![t] = TRUE]
  /\ fate[q] = "unasked" /\ \A p \in 1..(q - 1) : fate[p] # "unasked"
  /\ LET chat == ensureActiveChat(t)
         list == Asked(chat.list, chat.id, q)
         key == storageKey(t)
         creates == chat.made > created
     IN /\ chat.made <= MaxChats
        /\ created' = chat.made
        /\ \/ /\ creates => Fits(key, chat.list) /\ Fits(key, list)
              /\ Remember(t, list, chat.id)
              /\ saveChats(t, list, chat.id)
              /\ pending' = IF Fits(key, list)
                            THEN [pending EXCEPT ![t] = [chat |-> chat.id, ask |-> q]] ELSE pending
           \/ /\ creates /\ ~Fits(key, chat.list)
              /\ Remember(t, chat.list, chat.id)
              /\ Raises(t) /\ UNCHANGED <<storage, writer, pending>>
           \/ /\ creates /\ Fits(key, chat.list) /\ ~Fits(key, list)
              /\ Remember(t, list, chat.id)
              /\ Stores(t, key, chat.list, chat.id) /\ Raises(t) /\ UNCHANGED pending
  /\ fate' = [fate EXCEPT ![q] = IF page[t] = "ready" THEN "sent" ELSE "early"]
  /\ UNCHANGED page

\* Mutant of Settle: the text goes to the chat that is active now.
SettleInActive(t, reply, end) ==
  LET p == pending[t]
      list == InChat(chats[t], active[t], LAMBDA s : [j \in DOMAIN s |->
                IF j = Len(s) THEN [s[j] EXCEPT !.reply = reply] ELSE s[j]])
  IN /\ Remember(t, list, active[t])
     /\ saveChats(t, list, active[t])
     /\ fate' = [fate EXCEPT ![p.ask] = IF @ = "early" THEN @ ELSE end]
     /\ pending' = [pending EXCEPT ![t] = None]
     /\ busy' = [busy EXCEPT ![t] = FALSE]
     /\ UNCHANGED <<page, created>>

\* Mutant of Settle: the finally clause does not run.
SettleStaysBusy(t, reply, end) ==
  LET p == pending[t]
      list == Filled(chats[t], p.chat, p.ask, reply)
  IN /\ Remember(t, list, active[t])
     /\ fate' = [fate EXCEPT ![p.ask] = IF @ = "early" THEN @ ELSE end]
     /\ pending' = [pending EXCEPT ![t] = None]
     /\ UNCHANGED <<page, created, busy, storage, writer, raised, sole>>

\* The pending message is filled in, and the finally clause saves and resets
\* busy, in this order.
Settle(t, reply, end) ==
  LET p == pending[t]
      list == Filled(chats[t], p.chat, p.ask, reply)
  IN /\ Remember(t, list, active[t])
     /\ saveChats(t, list, active[t])
     /\ fate' = [fate EXCEPT ![p.ask] = IF @ = "early" THEN @ ELSE end]
     /\ pending' = [pending EXCEPT ![t] = None]
     /\ busy' = [busy EXCEPT ![t] = ~Fits(storageKey(t), list)]
     /\ UNCHANGED <<page, created>>

Answer(t) ==
  /\ pending[t] # None
  /\ Settle(t, pending[t].ask, "answered")

\* An error status, a network error, or a body that is no JSON.
Error(t) ==
  /\ pending[t] # None
  /\ Settle(t, Failed, "failed")

\* 401: nothing is filled in, the finally clause saves, and the page is left.
SignedOut(t) ==
  /\ pending[t] # None
  /\ saveChats(t, chats[t], active[t])
  /\ page' = [page EXCEPT ![t] = "closed"]
  /\ Remember(t, <<>>, None)
  /\ Abandon(t)
  /\ UNCHANGED created

Respond(t) == Answer(t) \/ Error(t) \/ SignedOut(t)

Next ==
  \E t \in Tabs :
    \/ Open(t) \/ Close(t) \/ Bootstrap(t) \/ createChat(t)
    \/ \E id \in Chats : switchChat(t, id)
    \/ \E q \in Questions : ask(t, q)
    \/ Respond(t)

Spec == Init /\ [][Next]_vars

\* fetch ends: the server answers, or the connection to it breaks. fetch has no
\* timeout: while a statement hangs there (GovernedChat), the tab stays busy.
\* Nothing is assumed of the user.
FairSpec == Spec /\ \A t \in Tabs : WF_vars(Respond(t))

-----------------------------------------------------------------------------
(* Correctness.                                                            *)

\* Every variable keeps its shape (checked with StoredIsOneTabsView).
TypeOK ==
  /\ page \in [Tabs -> {"closed", "loading", "ready"}]
  /\ chats \in [Tabs -> Seq(Chat)]
  /\ active \in [Tabs -> Chats \union {None}]
  /\ busy \in [Tabs -> BOOLEAN]
  /\ pending \in [Tabs -> Pending \union {None}]
  /\ storage \in [Keys -> [chats : Seq(Chat), active : Chats \union {None}]]
  /\ created \in 0..MaxChats
  /\ fate \in [Questions -> {"unasked", "early", "sent", "answered", "failed", "abandoned"}]
  /\ writer \in Tabs \union {None}
  /\ raised \in [Tabs -> BOOLEAN]
  /\ sole \in Tabs \union {None, Shared}

Messages(list) == UNION {ToSet(list[i].messages) : i \in DOMAIN list}

Shown ==
  (UNION {Messages(chats[t]) : t \in Tabs}) \union (UNION {Messages(storage[k].chats) : k \in Keys})

\* However the user switches between chats, makes new ones, reloads or uses a
\* second tab while a question is in flight: an answer stands under the question
\* it answers, and under no other (ask holds on to the pending message itself).
AnswerWhereAsked ==
  \A m \in Shown : m.reply \in {Thinking, Failed, m.ask}

\* What stands under a question whose fate is known.
Expected(q) ==
  CASE fate[q] = "answered" -> q
    [] fate[q] = "failed" -> Failed
    [] OTHER -> Thinking

\* As long as there is one tab and room in localStorage, nothing asked after
\* bootstrap is lost: it is in localStorage once, with its answer or its error;
\* only a question the page left behind stays "thinking", for ever.
NothingLost ==
  sole # Shared =>
    \A q \in Questions : fate[q] \notin {"unasked", "early"} =>
      /\ [ask |-> q, reply |-> Expected(q)] \in Messages(storage["user"].chats)
      /\ \A m \in Messages(storage["user"].chats) : m.ask = q => m.reply = Expected(q)

\* A closed tab has no memory, and a question not asked yet stands nowhere.
Remembered ==
  /\ \A t \in Tabs : page[t] = "closed" => chats[t] = <<>> /\ pending[t] = None
  /\ \A q \in Questions : fate[q] = "unasked" => \A m \in Shown : m.ask # q

\* The only tab, once it knows its user, shows what localStorage holds, and the
\* question it waits for stands in the chat it was asked in.
SoleTab ==
  /\ \A t \in Tabs \ {sole} : sole # Shared => page[t] = "closed"
  /\ sole \in Tabs /\ page[sole] = "ready" => chats[sole] = storage["user"].chats
  /\ sole \in Tabs /\ pending[sole] # None /\ fate[pending[sole].ask] # "early" =>
       /\ page[sole] = "ready" /\ fate[pending[sole].ask] = "sent"
       /\ \A i \in DOMAIN chats[sole] : \A m \in ToSet(chats[sole][i].messages) :
            m.ask = pending[sole].ask => chats[sole][i].id = pending[sole].chat

\* With several tabs localStorage is still the list of one of them, never a
\* mixture: that of the tab that saved last, as its user sees it. (With it are
\* checked the facts that make NothingLost inductive.)
StoredIsOneTabsView ==
  /\ TypeOK /\ Remembered /\ SoleTab
  /\ writer # None /\ page[writer] = "ready" /\ ~raised[writer] =>
       storage["user"].chats = chats[writer]

IndInv == StoredIsOneTabsView /\ AnswerWhereAsked /\ NothingLost

\* The send button comes back, whichever way the request ends; except where a
\* save has raised for want of room, and then only a reload helps.
AskEnds == \A t \in Tabs : busy[t] ~> ~busy[t] \/ raised[t]

=============================================================================
