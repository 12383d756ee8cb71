----------------------------- MODULE Page_proofs -----------------------------
(***************************************************************************)
(* Proofs about Page, for any number of runs, payloads and resets and any  *)
(* limit of the transcript: what an agent says in a run is one message,    *)
(* the surfaces on the page were allowed and have roots, and the message   *)
(* of a run holds what the run said.                                       *)
(***************************************************************************)
EXTENDS Page, Induction, SequenceTheorems, FiniteSetTheorems, TLAPS

IsList(list) == list \in Seq({list[i] : i \in DOMAIN list})

\* A list of messages, and refs with a transcript.
Messages(list) == IsList(list) /\ \A i \in DOMAIN list : list[i].id \in Nat \ {0}

Numbered(content) ==
  /\ content = [assistant |-> content.assistant, chat |-> content.chat]
  /\ content.assistant.id \in Nat
  /\ Messages(content.chat)

\* Only the message with the number of the refs may hold text of the last run, r, and besides
\* text of overtaken runs alone.
Holds(message, id, r, others) ==
  /\ message.runs \subseteq 1..r
  /\ message.id = id => Assistant(message) /\ message.runs \subseteq {r} \cup others
  /\ Assistant(message) =>
       /\ r \in message.runs => message.id = id \/ r \in others
       /\ (\E s \in 1..r : message.runs = {s}) \/ message.runs \cap others # {}

Apart(m, n, others) ==
  /\ m.id # n.id
  /\ Assistant(m) /\ Assistant(n) => m.runs \cap n.runs \subseteq others

Arranged(list, id, r, others) ==
  /\ \A i \in DOMAIN list : Holds(list[i], id, r, others)
  /\ \A i, j \in DOMAIN list : i # j => Apart(list[i], list[j], others)

\* What is kept of refs and transcript while run r is the last one.
Kept(content, r, others) ==
  /\ Numbered(content)
  /\ Len(content.chat) <= ChatLimit
  /\ Arranged(content.chat, content.assistant.id, r, others)

\* A function that may wait while run r is the last one.
Fits(update, r, others) ==
  /\ update.run \in 1..r
  /\ \/ update.kind = "text" /\ update.run \in {r} \cup others
     \/ update.kind = "say" /\ update.role \in {"user", "system"}

----------------------------------------------------------------------------
(***************************************************************************)
(* The limit of the transcript, and the numbers of its messages.           *)
(***************************************************************************)
LEMMA Greatest ==
  ASSUME NEW S \in SUBSET Nat, S # {}, NEW b \in Nat, \A x \in S : x <= b
  PROVE  Max(S) \in S /\ \A x \in S : x <= Max(S)
<1> DEFINE B == {y \in Nat : \A x \in S : x <= y}
<1>1. PICK y \in B : \A z \in B : y <= z
  <2>1. b \in B /\ B \in SUBSET Nat
    OBVIOUS
  <2> QED
    BY <2>1, Least
<1>2. y \in S
  <2>1. SUFFICES ASSUME y \notin S PROVE FALSE
    OBVIOUS
  <2>2. PICK x \in S : TRUE
    OBVIOUS
  <2>3. x <= y /\ x # y /\ x \in Nat /\ y \in Nat
    BY <2>1
  <2>4. y - 1 \in Nat /\ \A z \in S : z <= y - 1
    BY <2>1, <2>3
  <2>5. y - 1 \in B
    BY <2>4
  <2> QED
    BY <1>1, <2>3, <2>5
<1>3. \E z \in S : \A x \in S : z >= x
  BY <1>2
<1>4. Max(S) \in S /\ \A x \in S : Max(S) >= x
  BY <1>3 DEF Max
<1> QED
  BY <1>4

LEMMA GreaterOf ==
  ASSUME NEW a \in Int, NEW b \in Int
  PROVE  Max({a, b}) = IF a < b THEN b ELSE a
<1>1. \E z \in {a, b} : \A x \in {a, b} : z >= x
  OBVIOUS
<1>2. Max({a, b}) \in {a, b} /\ \A x \in {a, b} : Max({a, b}) >= x
  BY <1>1 DEF Max
<1> QED
  BY <1>2

LEMMA ListOf ==
  ASSUME NEW X, NEW list \in Seq(X)
  PROVE  IsList(list) /\ Len(list) \in Nat /\ DOMAIN list = 1..Len(list)
<1>1. \A i \in 1..Len(list) : list[i] \in {list[j] : j \in DOMAIN list}
  OBVIOUS
<1> QED
  BY <1>1 DEF IsList

\* The limit keeps a list's end.
LEMMA Limited ==
  ASSUME PageAssumption, NEW list, IsList(list)
  PROVE  /\ IsList(LimitList(list))
         /\ Len(LimitList(list)) <= ChatLimit
         /\ \E k \in Nat : \A i \in DOMAIN LimitList(list) :
              i + k \in DOMAIN list /\ LimitList(list)[i] = list[i + k]
<1> DEFINE X == {list[i] : i \in DOMAIN list}
           from == Max({1, Len(list) - ChatLimit + 1})
<1>1. list \in Seq(X) /\ Len(list) \in Nat /\ DOMAIN list = 1..Len(list)
  BY DEF IsList
<1>2. ChatLimit \in Nat \ {0}
  BY DEF PageAssumption
<1>3. from \in Nat /\ from >= 1 /\ Len(list) - from + 1 <= ChatLimit /\ (from = 1 \/ from <= Len(list))
  <2>1. Len(list) - ChatLimit + 1 \in Int /\ 1 \in Int
    BY <1>1, <1>2
  <2>2. from = IF 1 < Len(list) - ChatLimit + 1 THEN Len(list) - ChatLimit + 1 ELSE 1
    BY <2>1, GreaterOf
  <2> HIDE DEF from
  <2> QED
    BY <1>1, <1>2, <2>2
<1>4. LimitList(list) = SubSeq(list, from, Len(list))
  BY DEF LimitList
<1> HIDE DEF from, X
<1>5. /\ SubSeq(list, from, Len(list)) \in Seq(X)
      /\ Len(SubSeq(list, from, Len(list))) = IF from <= Len(list) THEN Len(list) - from + 1 ELSE 0
      /\ \A i \in 1..(Len(list) - from + 1) : SubSeq(list, from, Len(list))[i] = list[from + i - 1]
  <2>1. \A i \in from..Len(list) : list[i] \in X
    BY <1>1, <1>3 DEF X
  <2> QED
    BY <1>1, <1>3, <2>1, SubSeqProperties
<1>6. IsList(LimitList(list)) /\ Len(LimitList(list)) <= ChatLimit
  <2>1. IsList(LimitList(list))
    BY <1>4, <1>5, ListOf
  <2>2. Len(LimitList(list)) <= ChatLimit
    BY <1>1, <1>2, <1>3, <1>4, <1>5
  <2> QED
    BY <2>1, <2>2
<1>7. from - 1 \in Nat
  BY <1>3
<1>8. \A i \in DOMAIN LimitList(list) :
        i + (from - 1) \in DOMAIN list /\ LimitList(list)[i] = list[i + (from - 1)]
  <2>1. DOMAIN LimitList(list) = 1..Len(LimitList(list))
    BY <1>4, <1>5, ListOf
  <2>2. \A i \in 1..Len(LimitList(list)) :
          i \in 1..(Len(list) - from + 1) /\ from + i - 1 = i + (from - 1) /\ i + (from - 1) \in 1..Len(list)
    <3> DEFINE short == Len(LimitList(list))
    <3>1. short = IF from <= Len(list) THEN Len(list) - from + 1 ELSE 0
      BY <1>4, <1>5
    <3> HIDE DEF short
    <3>2. \A i \in 1..short :
            i \in 1..(Len(list) - from + 1) /\ from + i - 1 = i + (from - 1) /\ i + (from - 1) \in 1..Len(list)
      BY <1>1, <1>3, <3>1
    <3> QED
      BY <3>2 DEF short
  <2>3. \A i \in 1..(Len(list) - from + 1) : LimitList(list)[i] = list[from + i - 1]
    BY <1>4, <1>5
  <2> QED
    BY <1>1, <2>1, <2>2, <2>3
<1> QED
  BY <1>6, <1>7, <1>8

\* A new number is above all that are in use.
LEMMA NewNumber ==
  ASSUME NEW content, Numbered(content)
  PROVE  /\ NewId(content) \in Nat \ {0}
         /\ NewId(content) > content.assistant.id
         /\ \A i \in DOMAIN content.chat : NewId(content) > content.chat[i].id
<1> DEFINE list == content.chat
           a == content.assistant.id
           S == {0, a} \cup {list[i].id : i \in DOMAIN list}
<1>1. Len(list) \in Nat /\ DOMAIN list = 1..Len(list) /\ a \in Nat
  BY DEF Numbered, Messages, IsList
<1>2. \A i \in 1..Len(list) : list[i].id \in Nat
  BY <1>1 DEF Numbered, Messages
<1>3. NewId(content) = 1 + Max(S)
  BY DEF NewId
<1>4. S \in SUBSET Nat /\ S # {}
  BY <1>1, <1>2
<1> HIDE DEF list, a
<1> DEFINE T == {n \in 0..Len(list) : \E b \in Nat : a <= b /\ \A i \in 1..n : list[i].id <= b}
<1>5. 0 \in T
  BY <1>1
<1>6. \A n \in 1..Len(list) : n - 1 \in T => n \in T
  <2> TAKE n \in 1..Len(list)
  <2>1. HAVE n - 1 \in T
  <2>2. PICK b \in Nat : a <= b /\ \A i \in 1..(n - 1) : list[i].id <= b
    BY <2>1
  <2>3. PICK c \in Nat : b <= c /\ list[n].id <= c
    <3>1. list[n].id \in Nat
      BY <1>2
    <3> QED
      BY <3>1
  <2>4. \A i \in 1..n : list[i].id <= c
    <3> TAKE i \in 1..n
    <3>1. CASE i = n
      BY <2>3, <3>1
    <3>2. CASE i # n
      <4>1. i \in 1..(n - 1) /\ i \in 1..Len(list)
        BY <1>1, <3>2
      <4> QED
        BY <1>2, <2>2, <2>3, <4>1
    <3> QED
      BY <3>1, <3>2
  <2>5. a <= c /\ n \in 0..Len(list)
    BY <1>1, <2>2, <2>3
  <2> QED
    BY <2>4, <2>5
<1>7. Len(list) \in T
  <2>1. 0..Len(list) \subseteq T
    <3> HIDE DEF T
    <3> QED
      BY <1>1, <1>5, <1>6, InductUpTo
  <2> QED
    BY <1>1, <2>1
<1>8. PICK b \in Nat : a <= b /\ \A i \in 1..Len(list) : list[i].id <= b
  BY <1>7
<1>9. \A x \in S : x <= b
  BY <1>1, <1>8
<1> HIDE DEF S
<1>10. Max(S) \in S /\ \A x \in S : x <= Max(S)
  BY <1>4, <1>9, Greatest
<1>11. Max(S) \in Nat /\ a <= Max(S) /\ \A i \in 1..Len(list) : list[i].id <= Max(S)
  BY <1>1, <1>4, <1>10 DEF S
<1>12. /\ NewId(content) \in Nat \ {0}
       /\ NewId(content) > a
       /\ \A i \in 1..Len(list) : NewId(content) > list[i].id
  BY <1>1, <1>2, <1>3, <1>11
<1> QED
  BY <1>1, <1>12 DEF list, a

LEMMA LimitKeeps ==
  ASSUME PageAssumption, NEW list, Messages(list), NEW id, NEW r, NEW others,
         Arranged(list, id, r, others)
  PROVE  Messages(LimitList(list)) /\ Arranged(LimitList(list), id, r, others)
<1>1. IsList(list)
  BY DEF Messages
<1>2. PICK k \in Nat : \A i \in DOMAIN LimitList(list) :
                        i + k \in DOMAIN list /\ LimitList(list)[i] = list[i + k]
  BY <1>1, Limited
<1>3. IsList(LimitList(list)) /\ DOMAIN LimitList(list) \in SUBSET Int
  <2>1. IsList(LimitList(list))
    BY <1>1, Limited
  <2>2. DOMAIN LimitList(list) = 1..Len(LimitList(list)) /\ Len(LimitList(list)) \in Nat
    BY <2>1 DEF IsList
  <2> QED
    BY <2>1, <2>2
<1>4. Messages(LimitList(list))
  BY <1>2, <1>3 DEF Messages
<1>5. \A i \in DOMAIN LimitList(list) : Holds(LimitList(list)[i], id, r, others)
  BY <1>2 DEF Arranged
<1>6. \A i, j \in DOMAIN LimitList(list) : i # j => Apart(LimitList(list)[i], LimitList(list)[j], others)
  <2> TAKE i, j \in DOMAIN LimitList(list)
  <2>1. HAVE i # j
  <2>2. i + k # j + k
    BY <1>2, <1>3, <2>1
  <2> QED
    BY <1>2, <2>2 DEF Arranged
<1> QED
  BY <1>4, <1>5, <1>6 DEF Arranged

LEMMA AppendKeeps ==
  ASSUME NEW list, Messages(list), NEW id, NEW r, NEW others, Arranged(list, id, r, others),
         NEW message, message.id \in Nat \ {0}, Holds(message, id, r, others),
         \A i \in DOMAIN list : Apart(list[i], message, others)
  PROVE  Messages(Append(list, message)) /\ Arranged(Append(list, message), id, r, others)
<1> DEFINE longer == Append(list, message)
           X == {list[i] : i \in DOMAIN list} \cup {message}
<1>1. list \in Seq(X) /\ message \in X /\ Len(list) \in Nat /\ DOMAIN list = 1..Len(list)
  <2>1. list \in Seq({list[i] : i \in DOMAIN list})
    BY DEF Messages, IsList
  <2>2. \A i \in 1..Len(list) : list[i] \in X
    BY <2>1
  <2> QED
    BY <2>1
<1> HIDE DEF X
<1>2. /\ longer \in Seq(X) /\ Len(longer) = Len(list) + 1
      /\ \A i \in 1..Len(list) : longer[i] = list[i]
      /\ longer[Len(list) + 1] = message
  BY <1>1, AppendProperties
<1>3. IsList(longer) /\ DOMAIN longer = 1..(Len(list) + 1)
  BY <1>1, <1>2, ListOf
<1> HIDE DEF longer
<1>4. \A i \in DOMAIN longer : (i \in DOMAIN list /\ longer[i] = list[i]) \/ (i = Len(list) + 1 /\ longer[i] = message)
  BY <1>1, <1>2, <1>3
<1>5. Messages(longer)
  BY <1>3, <1>4 DEF Messages
<1>6. \A i \in DOMAIN longer : Holds(longer[i], id, r, others)
  BY <1>4 DEF Arranged
<1>7. \A i \in DOMAIN list : Apart(message, list[i], others)
  BY DEF Apart
<1>8. \A i, j \in DOMAIN longer : i # j => Apart(longer[i], longer[j], others)
  BY <1>4, <1>7 DEF Arranged
<1> QED
  BY <1>5, <1>6, <1>8 DEF Arranged, longer
----------------------------------------------------------------------------
(***************************************************************************)
(* The functions given to setChat.                                         *)
(***************************************************************************)

\* The function that adds text: its message, and what it makes of the refs and the transcript.
MessageId(content) == IF content.assistant.id = 0 THEN NewId(content) ELSE content.assistant.id

Found(content) == {i \in DOMAIN content.chat : content.chat[i].id = MessageId(content)}

LEMMA UpsertRefs ==
  ASSUME NEW content, Numbered(content), NEW r, NEW text
  PROVE  LET after == UpsertAssistantTranscript(content, r, text)
         IN  /\ after = [assistant |-> after.assistant, chat |-> after.chat]
             /\ after.assistant.id = MessageId(content)
             /\ MessageId(content) \in Nat \ {0}
<1>1. MessageId(content) \in Nat \ {0}
  BY NewNumber DEF MessageId, Numbered
<1> QED
  BY <1>1 DEF UpsertAssistantTranscript, MessageId

\* Once the refs have their number the transcript is arranged about this number.
LEMMA NumberKeeps ==
  ASSUME NEW content, NEW r \in Nat, NEW others, Kept(content, r, others)
  PROVE  Arranged(content.chat, MessageId(content), r, others)
<1>1. CASE content.assistant.id # 0
  BY <1>1 DEF Kept, MessageId
<1>2. CASE content.assistant.id = 0
  <2>1. \A i \in DOMAIN content.chat :
          content.chat[i].id \in Nat \ {0} /\ content.chat[i].id < MessageId(content)
    BY <1>2, NewNumber DEF Kept, Numbered, Messages, MessageId
  <2>2. \A i \in DOMAIN content.chat :
          content.chat[i].id # 0 /\ content.chat[i].id # MessageId(content)
    <3>1. MessageId(content) \in Nat
      BY <1>2, NewNumber DEF Kept, MessageId
    <3> QED
      BY <2>1, <3>1
  <2>3. Arranged(content.chat, 0, r, others)
    BY <1>2 DEF Kept
  <2> QED
    BY <2>2, <2>3 DEF Arranged, Holds
<1> QED
  BY <1>1, <1>2

LEMMA NewMessageKeeps ==
  ASSUME PageAssumption, NEW r \in Nat, NEW others, NEW content, Kept(content, r, others),
         NEW s \in 1..r, s \in {r} \cup others, NEW text, Found(content) = {}
  PROVE  Kept(UpsertAssistantTranscript(content, s, text), r, others)
<1> DEFINE after == UpsertAssistantTranscript(content, s, text)
           id == MessageId(content)
           list == content.chat
           merged == MergeAssistantTranscriptText(content.assistant.text, text)
           message == [id |-> id, role |-> "assistant", runs |-> {s}, text |-> merged]
<1>1. Numbered(content) /\ Messages(list)
  BY DEF Kept, Numbered
<1>2. /\ after = [assistant |-> after.assistant, chat |-> after.chat]
      /\ after.assistant.id = id
      /\ id \in Nat \ {0}
  BY <1>1, UpsertRefs
<1>3. after.chat = LimitList(Append(list, message))
  BY DEF UpsertAssistantTranscript, MessageId, Found
<1>4. Arranged(list, id, r, others)
  BY NumberKeeps
<1>5. /\ message.id = id /\ message.role = "assistant" /\ message.runs = {s}
      /\ \A i \in DOMAIN list : list[i].id # id
  BY DEF Found
<1> HIDE DEF after, id, list, message, merged
<1>6. Holds(message, id, r, others)
  BY <1>5 DEF Holds, Assistant
<1>7. \A i \in DOMAIN list : Apart(list[i], message, others)
  <2> TAKE i \in DOMAIN list
  <2>1. list[i].id # message.id
    BY <1>5
  <2>2. ASSUME Assistant(list[i]) PROVE list[i].runs \cap message.runs \subseteq others
    <3>1. r \in list[i].runs => r \in others
      BY <1>4, <1>5, <2>2 DEF Arranged, Holds
    <3> QED
      BY <1>5, <3>1
  <2> QED
    BY <2>1, <2>2 DEF Apart
<1>8. Messages(Append(list, message)) /\ Arranged(Append(list, message), id, r, others)
  BY <1>1, <1>2, <1>4, <1>5, <1>6, <1>7, AppendKeeps
<1>9. Messages(after.chat) /\ Arranged(after.chat, id, r, others) /\ Len(after.chat) <= ChatLimit
  <2>1. IsList(Append(list, message))
    BY <1>8 DEF Messages
  <2> QED
    BY <1>3, <1>8, <2>1, LimitKeeps, Limited
<1> QED
  BY <1>2, <1>9 DEF Kept, Numbered, after

LEMMA OldMessageKeeps ==
  ASSUME PageAssumption, NEW r \in Nat, NEW others, NEW content, Kept(content, r, others),
         NEW s \in 1..r, s \in {r} \cup others, NEW text, Found(content) # {}
  PROVE  Kept(UpsertAssistantTranscript(content, s, text), r, others)
<1> DEFINE after == UpsertAssistantTranscript(content, s, text)
           id == MessageId(content)
           list == content.chat
           found == Found(content)
           merged == MergeAssistantTranscriptText(content.assistant.text, text)
           Merged(runs) == [id |-> id, role |-> "assistant", runs |-> {s} \cup runs, text |-> merged]
           renewed == [i \in DOMAIN list |-> IF i \in found THEN Merged(list[i].runs) ELSE list[i]]
<1>1. Numbered(content) /\ Messages(list) /\ Len(list) <= ChatLimit
  BY DEF Kept, Numbered
<1>2. /\ after = [assistant |-> after.assistant, chat |-> after.chat]
      /\ after.assistant.id = id
      /\ id \in Nat \ {0}
  BY <1>1, UpsertRefs
<1>3. after.chat = renewed
  BY DEF UpsertAssistantTranscript, MessageId, Found
<1>4. Arranged(list, id, r, others)
  BY NumberKeeps
<1>5. \A i \in DOMAIN list : i \in found <=> list[i].id = id
  BY DEF Found
<1>6. \A runs : /\ Merged(runs).id = id /\ Merged(runs).role = "assistant"
                /\ Merged(runs).runs = {s} \cup runs
  OBVIOUS
<1> HIDE DEF id, list, found, merged, Merged, after
<1>7. DOMAIN renewed = DOMAIN list /\ Len(list) \in Nat /\ DOMAIN list = 1..Len(list)
  BY <1>1 DEF Messages, IsList
<1>8. \A i \in DOMAIN list : i \in found => renewed[i] = Merged(list[i].runs) /\ Holds(renewed[i], id, r, others)
  <2> TAKE i \in DOMAIN list
  <2>1. HAVE i \in found
  <2>2. renewed[i] = Merged(list[i].runs)
    BY <2>1
  <2>3. /\ list[i].runs \subseteq 1..r
        /\ list[i].runs \subseteq {r} \cup others
        /\ (\E q \in 1..r : list[i].runs = {q}) \/ list[i].runs \cap others # {}
    BY <1>4, <1>5, <2>1 DEF Arranged, Holds
  <2>4. (\E q \in 1..r : {s} \cup list[i].runs = {q}) \/ ({s} \cup list[i].runs) \cap others # {}
    <3>1. CASE s \in others
      BY <3>1
    <3>2. CASE list[i].runs \cap others # {}
      BY <3>2
    <3>3. CASE s = r /\ list[i].runs \cap others = {}
      BY <2>3, <3>3
    <3> QED
      BY <3>1, <3>2, <3>3
  <2> HIDE DEF renewed
  <2> QED
    BY <1>6, <2>2, <2>3, <2>4 DEF Holds, Assistant
<1>9. \A i \in DOMAIN list : i \notin found => renewed[i] = list[i]
  OBVIOUS
<1> HIDE DEF renewed
<1>10. \A i \in DOMAIN list : Holds(renewed[i], id, r, others)
  BY <1>4, <1>8, <1>9 DEF Arranged
<1>11. \A i, j \in DOMAIN list : i # j => Apart(renewed[i], renewed[j], others)
  <2>1. ASSUME NEW i \in DOMAIN list, NEW j \in DOMAIN list, i \in found, j \notin found
        PROVE  Apart(renewed[i], renewed[j], others)
    <3>1. /\ renewed[i] = Merged(list[i].runs)
          /\ renewed[j] = list[j]
          /\ list[j].id # id
          /\ list[i].id = id
      BY <1>5, <1>8, <1>9, <2>1
    <3>2. ASSUME Assistant(list[j]) PROVE ({s} \cup list[i].runs) \cap list[j].runs \subseteq others
      <4>1. (r \in list[j].runs => r \in others) /\ Assistant(list[i])
        BY <1>4, <3>1, <3>2 DEF Arranged, Holds
      <4>2. list[i].runs \cap list[j].runs \subseteq others
        BY <1>4, <2>1, <3>2, <4>1 DEF Arranged, Apart
      <4> QED
        BY <4>1, <4>2
    <3> QED
      BY <1>6, <3>1, <3>2 DEF Apart, Assistant
  <2>2. \A i, j \in DOMAIN list : i # j /\ i \in found => j \notin found
    BY <1>4, <1>5 DEF Arranged, Apart
  <2>3. \A m, n : Apart(m, n, others) => Apart(n, m, others)
    BY DEF Apart
  <2> TAKE i, j \in DOMAIN list
  <2>4. HAVE i # j
  <2>5. CASE i \in found
    BY <2>1, <2>2, <2>4, <2>5
  <2>6. CASE i \notin found /\ j \in found
    BY <2>1, <2>3, <2>6
  <2>7. CASE i \notin found /\ j \notin found
    BY <1>4, <1>9, <2>4, <2>7 DEF Arranged
  <2> QED
    BY <2>5, <2>6, <2>7
<1>12. Messages(renewed) /\ Len(renewed) <= ChatLimit
  <2>1. \A i \in DOMAIN list : renewed[i].id \in Nat \ {0}
    BY <1>1, <1>2, <1>6, <1>8, <1>9 DEF Messages
  <2>2. renewed \in Seq({renewed[i] : i \in DOMAIN renewed}) /\ Len(renewed) = Len(list)
    BY <1>7 DEF renewed
  <2> QED
    BY <1>1, <1>7, <2>1, <2>2 DEF Messages, IsList
<1> QED
  BY <1>2, <1>3, <1>7, <1>10, <1>11, <1>12 DEF Kept, Numbered, Arranged, after

LEMMA SayKeeps ==
  ASSUME PageAssumption, NEW r \in Nat, NEW others, NEW content, Kept(content, r, others),
         NEW s \in 1..r, NEW role \in {"user", "system"}, NEW text,
         NEW after, after = [content EXCEPT !.chat = LimitList(Append(@,
           [id |-> NewId(content), role |-> role, runs |-> {s}, text |-> text]))]
  PROVE  Kept(after, r, others)
<1> DEFINE list == content.chat
           id == content.assistant.id
           message == [id |-> NewId(content), role |-> role, runs |-> {s}, text |-> text]
<1>1. Numbered(content) /\ Messages(list) /\ Arranged(list, id, r, others) /\ id \in Nat
  BY DEF Kept, Numbered
<1>2. /\ NewId(content) \in Nat \ {0} /\ NewId(content) > id
      /\ \A i \in DOMAIN list : NewId(content) > list[i].id
  BY <1>1, NewNumber
<1>3. /\ after = [assistant |-> after.assistant, chat |-> after.chat]
      /\ after.assistant = content.assistant
      /\ after.chat = LimitList(Append(list, message))
  BY <1>1 DEF Numbered
<1>4. message.id = NewId(content) /\ message.role = role /\ message.runs = {s}
  OBVIOUS
<1> HIDE DEF list, id, message
<1>5. message.id # id /\ message.id \in Nat \ {0}
  BY <1>1, <1>2, <1>4
<1>6. ~Assistant(message)
  BY <1>4 DEF Assistant
<1>7. Holds(message, id, r, others)
  BY <1>4, <1>5, <1>6 DEF Holds
<1>8. \A i \in DOMAIN list : Apart(list[i], message, others)
  <2> TAKE i \in DOMAIN list
  <2>1. list[i].id \in Nat
    BY <1>1 DEF Messages
  <2>2. list[i].id # message.id
    BY <1>2, <1>4, <2>1
  <2> QED
    BY <1>6, <2>2 DEF Apart
<1>9. Messages(Append(list, message)) /\ Arranged(Append(list, message), id, r, others)
  BY <1>1, <1>5, <1>7, <1>8, AppendKeeps
<1>10. Messages(after.chat) /\ Arranged(after.chat, id, r, others) /\ Len(after.chat) <= ChatLimit
  <2>1. IsList(Append(list, message))
    BY <1>9 DEF Messages
  <2> QED
    BY <1>3, <1>9, <2>1, LimitKeeps, Limited
<1> QED
  BY <1>1, <1>3, <1>10 DEF Kept, Numbered, id

LEMMA ApplyKeeps ==
  ASSUME PageAssumption, NEW r \in Nat, NEW others, NEW content, Kept(content, r, others),
         NEW update, Fits(update, r, others)
  PROVE  Kept(Apply(content, update), r, others)
<1>1. CASE update.kind = "text"
  <2>1. Apply(content, update) = UpsertAssistantTranscript(content, update.run, update.text)
    BY <1>1 DEF Apply
  <2>2. update.run \in 1..r /\ update.run \in {r} \cup others
    BY <1>1 DEF Fits
  <2> QED
    BY <2>1, <2>2, NewMessageKeeps, OldMessageKeeps
<1>2. CASE update.kind = "say"
  <2>1. Apply(content, update) = [content EXCEPT !.chat = LimitList(Append(@,
          [id |-> NewId(content), role |-> update.role, runs |-> {update.run}, text |-> << >>]))]
    BY <1>2 DEF Apply
  <2>2. update.run \in 1..r /\ update.role \in {"user", "system"}
    BY <1>2 DEF Fits
  <2> QED
    BY <2>1, <2>2, SayKeeps
<1> QED
  BY <1>1, <1>2 DEF Fits

\* A function that React runs twice finds, the second time, the refs the first time has left.
LEMMA ApplyTwiceKeeps ==
  ASSUME PageAssumption, NEW r \in Nat, NEW others, NEW content, Kept(content, r, others),
         NEW update, Fits(update, r, others)
  PROVE  Kept(ApplyTwice(content, update), r, others)
<1> DEFINE refs == Apply(content, update).assistant
           again == [content EXCEPT !.assistant = refs]
<1>1. Numbered(content) /\ Arranged(content.chat, content.assistant.id, r, others)
  BY DEF Kept
<1>2. refs.id \in Nat /\ Arranged(content.chat, refs.id, r, others)
  <2>1. CASE update.kind = "text"
    <3>1. refs = UpsertAssistantTranscript(content, update.run, update.text).assistant
      BY <2>1 DEF Apply
    <3>2. refs.id = MessageId(content) /\ MessageId(content) \in Nat
      BY <1>1, <3>1, UpsertRefs
    <3> HIDE DEF refs
    <3> QED
      BY <3>2, NumberKeeps
  <2>2. CASE update.kind = "say"
    <3>1. Apply(content, update) = [content EXCEPT !.chat = LimitList(Append(@,
            [id |-> NewId(content), role |-> update.role, runs |-> {update.run}, text |-> << >>]))]
      BY <2>2 DEF Apply
    <3>2. refs = content.assistant
      BY <1>1, <3>1 DEF Numbered
    <3> HIDE DEF refs
    <3> QED
      BY <1>1, <3>2 DEF Numbered
  <2> QED
    BY <2>1, <2>2 DEF Fits
<1> HIDE DEF refs
<1>3. again = [assistant |-> refs, chat |-> content.chat]
  BY <1>1 DEF Numbered
<1>4. again.assistant = refs /\ again.chat = content.chat
  BY <1>3
<1> HIDE DEF again
<1>5. Kept(again, r, others)
  BY <1>1, <1>2, <1>3, <1>4 DEF Kept, Numbered
<1>6. ApplyTwice(content, update) = Apply(again, update)
  BY DEF ApplyTwice, refs, again
<1> QED
  BY <1>5, <1>6, ApplyKeeps

\* The refs and the transcript after the first n functions of a queue.
IsFolding(f, queue, refs, messages, twice) ==
  /\ f[0] = [assistant |-> refs, chat |-> messages]
  /\ \A n \in 1..Len(queue) : f[n] = IF twice THEN ApplyTwice(f[n - 1], queue[n])
                                    ELSE Apply(f[n - 1], queue[n])

LEMMA Folding ==
  ASSUME NEW queue, Len(queue) \in Nat, NEW refs, NEW twice
  PROVE  \E f : IsFolding(f, queue, refs, chat, twice) /\ Content(queue, refs, twice) = f[Len(queue)]
<1> DEFINE N == Len(queue)
           base == [assistant |-> refs, chat |-> chat]
           Turn(c, n) == IF twice THEN ApplyTwice(c, queue[n]) ELSE Apply(c, queue[n])
           Solves(g, k) == g = [n \in 0..k |-> IF n = 0 THEN base ELSE Turn(g[n - 1], n)]
           S == {k \in 0..N : \E g : Solves(g, k)}
           f == CHOOSE g : Solves(g, N)
<1>1. Content(queue, refs, twice) = f[N]
  BY DEF Content
<1>2. N \in Nat
  OBVIOUS
<1> HIDE DEF N, base, Turn, f
<1>3. 0 \in S
  <2>1. Solves([n \in 0..0 |-> base], 0)
    OBVIOUS
  <2> HIDE DEF Solves
  <2> QED
    BY <1>2, <2>1
<1>4. \A k \in 1..N : k - 1 \in S => k \in S
  <2> TAKE k \in 1..N
  <2>1. HAVE k - 1 \in S
  <2>2. PICK g : Solves(g, k - 1)
    BY <2>1
  <2> DEFINE h == [n \in 0..k |-> IF n < k THEN g[n] ELSE Turn(g[k - 1], k)]
  <2>3. /\ \A n \in 0..k : n # 0 /\ n < k => n \in 0..(k - 1) /\ n - 1 \in 0..k /\ n - 1 < k
        /\ \A n \in 0..k : ~(n < k) => n = k
        /\ k \in Nat /\ k # 0 /\ k - 1 \in 0..k /\ k - 1 < k /\ 0 \in 0..(k - 1) /\ 0 < k
    BY <1>2
  <2>4. \A n \in 0..(k - 1) : g[n] = IF n = 0 THEN base ELSE Turn(g[n - 1], n)
    BY <2>2
  <2>5. \A n \in 0..k : h[n] = IF n = 0 THEN base ELSE Turn(h[n - 1], n)
    <3> TAKE n \in 0..k
    <3>1. CASE n = 0
      BY <2>3, <2>4, <3>1
    <3>2. CASE n # 0 /\ n < k
      <4>1. h[n] = g[n] /\ h[n - 1] = g[n - 1]
        BY <2>3, <3>2
      <4> QED
        BY <2>3, <2>4, <3>2, <4>1
    <3>3. CASE n = k
      <4>1. h[n] = Turn(g[k - 1], k) /\ h[n - 1] = g[k - 1]
        BY <2>3, <3>3
      <4> QED
        BY <2>3, <3>3, <4>1
    <3> QED
      BY <2>3, <3>1, <3>2, <3>3
  <2>6. Solves(h, k)
    <3> HIDE DEF h
    <3>1. h = [n \in 0..k |-> h[n]]
      BY DEF h
    <3> QED
      BY <2>5, <3>1
  <2> HIDE DEF h, Solves
  <2> QED
    BY <1>2, <2>6
<1>5. N \in S
  <2>1. 0..N \subseteq S
    <3> HIDE DEF S
    <3> QED
      BY <1>2, <1>3, <1>4, InductUpTo
  <2> QED
    BY <1>2, <2>1
<1>6. Solves(f, N)
  <2>1. \E g : Solves(g, N)
    BY <1>5
  <2> HIDE DEF Solves
  <2> QED
    BY <2>1 DEF f
<1>7. f[0] = base /\ \A n \in 1..N : f[n] = Turn(f[n - 1], n)
  <2>1. \A n \in 0..N : f[n] = IF n = 0 THEN base ELSE Turn(f[n - 1], n)
    BY <1>6
  <2>2. 0 \in 0..N /\ \A n \in 1..N : n \in 0..N /\ n # 0
    BY <1>2
  <2> QED
    BY <2>1, <2>2
<1>8. IsFolding(f, queue, refs, chat, twice)
  BY <1>7 DEF IsFolding, N, base, Turn
<1> QED
  BY <1>1, <1>8 DEF N

LEMMA FoldingKeeps ==
  ASSUME PageAssumption, NEW r \in Nat, NEW others, NEW queue, Len(queue) \in Nat,
         NEW refs, NEW messages, Kept([assistant |-> refs, chat |-> messages], r, others),
         \A n \in 1..Len(queue) : Fits(queue[n], r, others),
         NEW twice \in BOOLEAN, NEW f, IsFolding(f, queue, refs, messages, twice)
  PROVE  Kept(f[Len(queue)], r, others)
<1> DEFINE N == Len(queue)
           S == {n \in 0..N : Kept(f[n], r, others)}
<1>1. 0 \in S
  BY DEF IsFolding
<1>2. \A n \in 1..N : n - 1 \in S => n \in S
  <2> TAKE n \in 1..N
  <2>1. HAVE n - 1 \in S
  <2>2. Kept(Apply(f[n - 1], queue[n]), r, others)
    BY <2>1, ApplyKeeps
  <2>3. Kept(ApplyTwice(f[n - 1], queue[n]), r, others)
    BY <2>1, ApplyTwiceKeeps
  <2>4. f[n] = Apply(f[n - 1], queue[n]) \/ f[n] = ApplyTwice(f[n - 1], queue[n])
    BY DEF IsFolding
  <2> QED
    BY <2>2, <2>3, <2>4
<1>3. 0..N \subseteq S
  <2> HIDE DEF S
  <2> QED
    BY <1>1, <1>2, InductUpTo
<1> QED
  BY <1>3

LEMMA ContentsKeep ==
  ASSUME PageAssumption, NEW r \in Nat, NEW others, NEW queue, Len(queue) \in Nat,
         NEW refs, Kept([assistant |-> refs, chat |-> chat], r, others),
         \A n \in 1..Len(queue) : Fits(queue[n], r, others),
         NEW content \in Contents(queue, refs)
  PROVE  Kept(content, r, others)
<1>1. PICK twice \in BOOLEAN : content = Content(queue, refs, twice)
  BY DEF Contents
<1>2. PICK f : IsFolding(f, queue, refs, chat, twice) /\ Content(queue, refs, twice) = f[Len(queue)]
  BY Folding
<1> QED
  BY <1>1, <1>2, FoldingKeeps

\* The refs that were reset, with the transcript as it is, while run r goes on or the next one
\* starts; what is overtaken grows.
LEMMA ResetRefs ==
  ASSUME NEW r \in Nat, NEW others, NEW refs, Kept([assistant |-> refs, chat |-> chat], r, others)
  PROVE  /\ Kept([assistant |-> NoMessage, chat |-> chat], r, 1..r)
         /\ \A more : others \subseteq more =>
              Kept([assistant |-> NoMessage, chat |-> chat], r + 1, more)
<1>1. Messages(chat) /\ Len(chat) <= ChatLimit /\ Arranged(chat, refs.id, r, others)
  BY DEF Kept, Numbered
<1>2. \A i \in DOMAIN chat : chat[i].id # 0
  BY <1>1 DEF Messages
<1>3. NoMessage.id = 0
  BY DEF NoMessage
<1>4. Arranged(chat, 0, r, 1..r)
  <2>1. \A i \in DOMAIN chat : Holds(chat[i], 0, r, 1..r)
    <3> TAKE i \in DOMAIN chat
    <3>1. Holds(chat[i], refs.id, r, others)
      BY <1>1 DEF Arranged
    <3>2. ASSUME Assistant(chat[i])
          PROVE  (\E s \in 1..r : chat[i].runs = {s}) \/ chat[i].runs \cap (1..r) # {}
      BY <3>1, <3>2 DEF Holds
    <3>3. \A q : q \in chat[i].runs => q \in 1..r
      BY <3>1 DEF Holds
    <3> QED
      BY <1>2, <3>2, <3>3 DEF Holds
  <2>2. \A i, j \in DOMAIN chat : i # j => Apart(chat[i], chat[j], 1..r)
    BY <1>1, <2>1 DEF Arranged, Apart, Holds
  <2> QED
    BY <2>1, <2>2 DEF Arranged
<1>5. ASSUME NEW more, others \subseteq more PROVE Arranged(chat, 0, r + 1, more)
  <2>1. r + 1 \notin 1..r /\ 1..r \subseteq 1..(r + 1)
    OBVIOUS
  <2>2. \A i \in DOMAIN chat : Holds(chat[i], 0, r + 1, more)
    <3> TAKE i \in DOMAIN chat
    <3>1. Holds(chat[i], refs.id, r, others)
      BY <1>1 DEF Arranged
    <3>2. chat[i].runs \subseteq 1..r /\ r + 1 \notin chat[i].runs /\ chat[i].id # 0
      BY <1>2, <2>1, <3>1 DEF Holds
    <3>3. ASSUME Assistant(chat[i])
          PROVE  (\E s \in 1..(r + 1) : chat[i].runs = {s}) \/ chat[i].runs \cap more # {}
      BY <1>5, <2>1, <3>1, <3>3 DEF Holds
    <3> QED
      BY <2>1, <3>2, <3>3 DEF Holds
  <2>3. \A i, j \in DOMAIN chat : i # j => Apart(chat[i], chat[j], more)
    BY <1>1, <1>5 DEF Arranged, Apart
  <2> QED
    BY <2>2, <2>3 DEF Arranged
<1> DEFINE empty == [assistant |-> NoMessage, chat |-> chat]
<1>6. Numbered(empty) /\ empty.assistant.id = 0 /\ empty.chat = chat
  BY <1>1, <1>3 DEF Numbered
<1> HIDE DEF empty
<1>7. Kept(empty, r, 1..r) /\ \A more : others \subseteq more => Kept(empty, r + 1, more)
  BY <1>1, <1>4, <1>5, <1>6 DEF Kept
<1> QED
  BY <1>7 DEF empty

\* One more function in the queue.
LEMMA Queued ==
  ASSUME NEW queue, IsList(queue), NEW update
  PROVE  /\ IsList(queue \o <<update>>)
         /\ Len(queue) \in Nat /\ Len(queue \o <<update>>) = Len(queue) + 1
         /\ \A n \in 1..Len(queue) : (queue \o <<update>>)[n] = queue[n]
         /\ (queue \o <<update>>)[Len(queue) + 1] = update
         /\ DOMAIN queue = 1..Len(queue) /\ DOMAIN (queue \o <<update>>) = 1..(Len(queue) + 1)
<1> DEFINE X == {queue[i] : i \in DOMAIN queue} \cup {update}
           longer == queue \o <<update>>
<1>1. queue \in Seq(X) /\ <<update>> \in Seq(X) /\ Len(queue) \in Nat /\ DOMAIN queue = 1..Len(queue)
  <2>1. queue \in Seq({queue[i] : i \in DOMAIN queue})
    BY DEF IsList
  <2>2. \A i \in 1..Len(queue) : queue[i] \in X
    BY <2>1
  <2> QED
    BY <2>1, <2>2
<1>2. Len(<<update>>) = 1 /\ <<update>>[1] = update
  OBVIOUS
<1> HIDE DEF X
<1>3. /\ longer \in Seq(X) /\ Len(longer) = Len(queue) + 1
      /\ \A n \in 1..(Len(queue) + 1) : longer[n] = IF n <= Len(queue) THEN queue[n]
                                                 ELSE <<update>>[n - Len(queue)]
  BY <1>1, <1>2, ConcatProperties
<1>4. IsList(longer) /\ DOMAIN longer = 1..(Len(queue) + 1)
  BY <1>1, <1>3, ListOf
<1> HIDE DEF longer
<1>5. /\ \A n \in 1..Len(queue) : longer[n] = queue[n]
      /\ longer[Len(queue) + 1] = update
  <2>1. /\ \A n \in 1..Len(queue) : n \in 1..(Len(queue) + 1) /\ n <= Len(queue)
        /\ Len(queue) + 1 \in 1..(Len(queue) + 1) /\ ~(Len(queue) + 1 <= Len(queue))
        /\ Len(queue) + 1 - Len(queue) = 1
    BY <1>1
  <2> QED
    BY <1>2, <1>3, <2>1
<1> QED
  BY <1>1, <1>3, <1>4, <1>5 DEF longer

\* A reset that is last in the queue leaves an empty transcript.
LEMMA ResetContents ==
  ASSUME PageAssumption, NEW r \in Nat, NEW others, NEW queue, IsList(queue),
         NEW refs, Kept([assistant |-> refs, chat |-> chat], r, others),
         \A n \in DOMAIN queue : Fits(queue[n], r, others),
         NEW content \in Contents(queue \o Reset, refs)
  PROVE  content.chat = << >> /\ content.assistant.id \in Nat
<1> DEFINE update == [kind |-> "reset", run |-> NoRun, role |-> "system", text |-> << >>]
           longer == queue \o <<update>>
           N == Len(queue)
<1>1. /\ N \in Nat /\ DOMAIN queue = 1..N /\ Len(longer) = N + 1
      /\ \A n \in 1..N : longer[n] = queue[n]
      /\ longer[N + 1] = update
  BY Queued
<1>2. update.kind = "reset"
  OBVIOUS
<1>3. content \in Contents(longer, refs)
  BY DEF Reset
<1> HIDE DEF update, longer, N
<1>4. PICK twice \in BOOLEAN : content = Content(longer, refs, twice)
  BY <1>3 DEF Contents
<1>5. PICK f : IsFolding(f, longer, refs, chat, twice) /\ content = f[N + 1]
  BY <1>1, <1>4, Folding
<1>6. IsFolding(f, queue, refs, chat, twice)
  BY <1>1, <1>5 DEF IsFolding, N
<1>7. Kept(f[N], r, others)
  BY <1>1, <1>6, FoldingKeeps DEF N
<1>8. Numbered(f[N])
  BY <1>7 DEF Kept
<1>9. content = IF twice THEN ApplyTwice(f[N], update) ELSE Apply(f[N], update)
  <2>1. N + 1 \in 1..Len(longer) /\ N + 1 - 1 = N
    BY <1>1
  <2> QED
    BY <1>1, <1>5, <2>1 DEF IsFolding
<1> DEFINE Erased(c) == [c EXCEPT !.chat = << >>]
<1>10. \A c : Apply(c, update) = Erased(c)
  BY <1>2 DEF Apply
<1>11. ASSUME NEW c, c = [assistant |-> c.assistant, chat |-> c.chat]
       PROVE  Erased(c).chat = << >> /\ Erased(c).assistant = c.assistant
  BY <1>11
<1>12. /\ Apply(f[N], update).chat = << >>
       /\ Apply(f[N], update).assistant = f[N].assistant
  BY <1>8, <1>10, <1>11 DEF Numbered
<1>13. /\ ApplyTwice(f[N], update).chat = << >>
       /\ ApplyTwice(f[N], update).assistant = f[N].assistant
  <2> DEFINE again == [f[N] EXCEPT !.assistant = Apply(f[N], update).assistant]
  <2>1. ApplyTwice(f[N], update) = Apply(again, update)
    BY DEF ApplyTwice
  <2>2. again = [assistant |-> f[N].assistant, chat |-> f[N].chat]
    BY <1>8, <1>12 DEF Numbered
  <2>3. again = [assistant |-> again.assistant, chat |-> again.chat] /\ again.assistant = f[N].assistant
    BY <2>2
  <2> HIDE DEF again, Erased
  <2> QED
    BY <1>10, <1>11, <2>1, <2>3
<1> QED
  BY <1>8, <1>9, <1>12, <1>13 DEF Numbered
----------------------------------------------------------------------------
(***************************************************************************)
(* What every step keeps.                                                  *)
(***************************************************************************)

\* The runs: an aborted one may still be open, and of the others at most the last one is, whose
\* controller the page was rendered with.
RunsInv ==
  /\ mode \in Modes
  /\ started \in 0..MaxRuns
  /\ open \subseteq 1..started /\ aborted \subseteq open
  /\ open \ aborted \subseteq {started} \cap {shown.controller}
  /\ {controller, shown.controller} \subseteq 0..started
  /\ {streaming, shown.streaming} \subseteq BOOLEAN
  /\ refused \in BOOLEAN
  /\ sent \in 0..MaxPayloads
  /\ epoch \in 0..MaxResets

\* The transcript: what waits to be rendered is text of the last run or of the page itself.
TranscriptInv ==
  /\ overtaken \subseteq 1..started
  /\ IsList(updates)
  /\ \A n \in DOMAIN updates : Fits(updates[n], started, {})
  /\ Kept([assistant |-> assistant, chat |-> chat], started, overtaken)

IInv == RunsInv /\ TranscriptInv

LEMMA Bounds ==
  ASSUME PageAssumption
  PROVE  MaxRuns \in Nat /\ MaxPayloads \in Nat /\ MaxResets \in Nat /\ ChatLimit \in Nat \ {0}
BY DEF PageAssumption

LEMMA EmptyList ==
  IsList(<< >>) /\ DOMAIN << >> = {} /\ Len(<< >>) = 0
<1>1. {<< >>[i] : i \in DOMAIN << >>} = {}
  OBVIOUS
<1>2. << >> \in Seq({})
  OBVIOUS
<1> QED
  BY <1>1, <1>2 DEF IsList

LEMMA InitKeeps ==
  ASSUME PageAssumption, Init
  PROVE  IInv
<1>1. RunsInv
  <2>1. shown = [controller |-> 0, streaming |-> FALSE, context |-> ""]
    BY DEF Init, Current, NoRun
  <2>2. shown.controller = 0 /\ shown.streaming = FALSE
    BY <2>1
  <2>3. 0 \in 0..MaxRuns /\ 0 \in 0..MaxPayloads /\ 0 \in 0..MaxResets /\ 0 \in 0..0
    BY Bounds
  <2>4. /\ mode \in Modes /\ started = 0 /\ open = {} /\ aborted = {} /\ controller = 0
        /\ streaming = FALSE /\ refused = FALSE /\ sent = 0 /\ epoch = 0
    BY DEF Init, Modes, NoRun
  <2> QED
    BY <2>2, <2>3, <2>4 DEF RunsInv
<1>2. IsList(<< >>) /\ DOMAIN << >> = {} /\ Len(<< >>) = 0
  BY EmptyList
<1>3. Kept([assistant |-> NoMessage, chat |-> << >>], 0, {})
  <2> DEFINE content == [assistant |-> NoMessage, chat |-> << >>]
  <2>1. content.assistant.id = 0 /\ content.chat = << >>
    BY DEF NoMessage
  <2>2. content = [assistant |-> content.assistant, chat |-> content.chat]
    OBVIOUS
  <2> HIDE DEF content
  <2>3. Messages(content.chat) /\ Arranged(content.chat, content.assistant.id, 0, {})
    BY <1>2, <2>1 DEF Messages, Arranged
  <2>4. Len(content.chat) <= ChatLimit
    BY <1>2, <2>1, Bounds
  <2> QED
    BY <2>1, <2>2, <2>3, <2>4 DEF Kept, Numbered, content
<1>4. TranscriptInv
  BY <1>2, <1>3 DEF Init, TranscriptInv
<1> QED
  BY <1>1, <1>4 DEF IInv

\* An empty transcript is well arranged.
LEMMA EmptyKept ==
  ASSUME PageAssumption, NEW refs, refs.id \in Nat, NEW r, NEW others
  PROVE  Kept([assistant |-> refs, chat |-> << >>], r, others)
<1> DEFINE content == [assistant |-> refs, chat |-> << >>]
<1>1. /\ content.assistant.id \in Nat /\ content.chat = << >>
      /\ content = [assistant |-> content.assistant, chat |-> content.chat]
  OBVIOUS
<1>2. IsList(<< >>) /\ DOMAIN << >> = {} /\ Len(<< >>) = 0
  BY EmptyList
<1> HIDE DEF content
<1>3. Messages(content.chat) /\ Arranged(content.chat, content.assistant.id, r, others)
  BY <1>1, <1>2 DEF Messages, Arranged
<1>4. Len(content.chat) <= ChatLimit
  BY <1>1, <1>2, Bounds
<1> QED
  BY <1>1, <1>3, <1>4 DEF Kept, Numbered, content

\* Refs and transcript that are what is left of the queue.
LEMMA RenderedKeeps ==
  ASSUME NEW content, NEW r, NEW others, Kept(content, r, others),
         NEW refs, refs = content.assistant, NEW messages, messages = content.chat
  PROVE  Kept([assistant |-> refs, chat |-> messages], r, others)
BY DEF Kept, Numbered

LEMMA NoUpdates ==
  ASSUME NEW queue, queue = << >>, NEW r
  PROVE  IsList(queue) /\ \A n \in DOMAIN queue : Fits(queue[n], r, {})
BY EmptyList

LEMMA FitsMore ==
  ASSUME NEW update, NEW r \in Nat, Fits(update, r, {})
  PROVE  /\ \A more : Fits(update, r, more)
         /\ update.kind \in {"text", "say"} /\ (update.kind = "text" => update.run = r)
         /\ update.run \in 1..(r + 1)
BY DEF Fits

\* The queue that the start of a run has rendered.
LEMMA RunQueue ==
  ASSUME PageAssumption, IInv, Run
  PROVE  LET r == started + 1
             queue == updates \o Say(r, "user")
         IN  /\ started \in Nat /\ r \in Runs /\ r \in 0..MaxRuns
             /\ overtaken \subseteq overtaken' /\ overtaken' \subseteq 1..started
             /\ IsList(queue) /\ Len(queue) \in Nat /\ DOMAIN queue = 1..Len(queue)
             /\ \A n \in DOMAIN queue : (n \in DOMAIN updates /\ queue[n] = updates[n]) \/ queue[n].kind = "say"
             /\ \A n \in DOMAIN queue : Fits(queue[n], r, overtaken')
             /\ Kept([assistant |-> NoMessage, chat |-> chat], r, overtaken')
<1> DEFINE r == started + 1
           more == overtaken'
           prompt == [kind |-> "say", run |-> r, role |-> "user", text |-> << >>]
           queue == updates \o <<prompt>>
<1>1. /\ started \in Nat /\ r \in Nat /\ started < MaxRuns /\ MaxRuns \in Nat
      /\ r \in 0..MaxRuns /\ r \in 1..r /\ r \in Runs
      /\ \A q \in 1..started : q \in Runs /\ q \in 1..r
  <2>1. started \in 0..MaxRuns /\ started < MaxRuns /\ MaxRuns \in Nat
    BY Bounds DEF IInv, RunsInv, Run, SendPrompt
  <2> QED
    BY <2>1 DEF Runs
<1>2. overtaken' = overtaken \cup {s \in Runs : \E i \in DOMAIN updates :
                                                updates[i].kind = "text" /\ updates[i].run = s}
  BY DEF Run, SendPrompt
<1>3. overtaken \subseteq more /\ more \subseteq 1..started
  <2>1. \A i \in DOMAIN updates : updates[i].run \in 1..started
    BY DEF IInv, TranscriptInv, Fits
  <2>2. overtaken \subseteq 1..started
    BY DEF IInv, TranscriptInv
  <2> QED
    BY <1>1, <1>2, <2>1, <2>2
<1>4. /\ IsList(queue) /\ Len(queue) \in Nat /\ DOMAIN queue = 1..Len(queue)
      /\ \A n \in DOMAIN queue : (n \in DOMAIN updates /\ queue[n] = updates[n]) \/ queue[n] = prompt
  <2>1. IsList(updates)
    BY DEF IInv, TranscriptInv
  <2> HIDE DEF prompt
  <2>2. /\ Len(updates) \in Nat /\ Len(queue) = Len(updates) + 1 /\ DOMAIN updates = 1..Len(updates)
        /\ \A n \in 1..Len(updates) : queue[n] = updates[n]
        /\ queue[Len(updates) + 1] = prompt
        /\ IsList(queue) /\ DOMAIN queue = 1..(Len(updates) + 1)
    BY <2>1, Queued
  <2> HIDE DEF queue
  <2> QED
    BY <2>2
<1>5. prompt.kind = "say" /\ prompt.run = r /\ prompt.role = "user"
  OBVIOUS
<1>6. \A n \in DOMAIN queue : Fits(queue[n], r, more)
  <2>1. Fits(prompt, r, more)
    <3> HIDE DEF prompt, r
    <3> QED
      BY <1>1, <1>5 DEF Fits
  <2>2. \A n \in DOMAIN updates : Fits(updates[n], r, more)
    <3> TAKE n \in DOMAIN updates
    <3>1. Fits(updates[n], started, {})
      BY DEF IInv, TranscriptInv
    <3>2. updates[n].kind = "text" => updates[n].run \in more
      <4>1. updates[n].run \in 1..started
        BY <3>1 DEF Fits
      <4> QED
        BY <1>1, <1>2, <4>1
    <3>3. updates[n].run \in 1..r
      BY <1>1, <3>1 DEF Fits
    <3> HIDE DEF more, r
    <3> QED
      BY <3>1, <3>2, <3>3 DEF Fits
  <2> HIDE DEF queue, prompt, more, r
  <2> QED
    BY <1>4, <2>1, <2>2
<1>7. Kept([assistant |-> NoMessage, chat |-> chat], r, more)
  <2>1. Kept([assistant |-> assistant, chat |-> chat], started, overtaken)
    BY DEF IInv, TranscriptInv
  <2> HIDE DEF more
  <2> QED
    BY <1>1, <1>3, <2>1, ResetRefs
<1>8. \A n \in DOMAIN queue : (n \in DOMAIN updates /\ queue[n] = updates[n]) \/ queue[n].kind = "say"
  <2> HIDE DEF prompt, queue
  <2> QED
    BY <1>5, <1>4
<1>9. Say(r, "user") = <<prompt>>
  BY DEF Say
<1> HIDE DEF prompt, r
<1> QED
  BY <1>1, <1>3, <1>4, <1>6, <1>7, <1>8, <1>9 DEF r

\* A run starts: what is queued is text of the runs that are overtaken now.
LEMMA RunKeeps ==
  ASSUME PageAssumption, IInv, Run
  PROVE  IInv'
<1> DEFINE r == started + 1
           more == overtaken'
           queue == updates \o Say(r, "user")
<1>1. /\ started \in Nat /\ r \in Nat /\ r \in 0..MaxRuns
      /\ more \subseteq 1..started
      /\ IsList(queue) /\ Len(queue) \in Nat /\ DOMAIN queue = 1..Len(queue)
      /\ \A n \in DOMAIN queue : Fits(queue[n], r, more)
      /\ Kept([assistant |-> NoMessage, chat |-> chat], r, more)
  BY RunQueue
<1>2. /\ started' = r /\ open' = open \cup {r} /\ controller' = r /\ streaming' = TRUE
      /\ mode' = mode /\ sent' = sent /\ epoch' = epoch /\ refused' \in BOOLEAN
      /\ open \cap aborted = {}
  BY DEF Run, SendPrompt, Settled
<1>3. PICK content \in Contents(queue, NoMessage) :
        /\ assistant' = content.assistant /\ chat' = content.chat /\ updates' = << >>
        /\ shown' = Current' /\ aborted' = Signals(aborted)
  BY DEF Run, SendPrompt, Rendered
<1>4. r # 0 /\ r \in 0..r /\ \A q \in 0..started : q # r /\ q \in 0..r
  BY <1>1
<1>5. \A q \in 1..started : q \in 1..r
  BY <1>1
<1>6. r \in 1..r
  BY <1>1
<1> HIDE DEF r, queue, more
<1>7. RunsInv'
  <2>1. /\ aborted = {} /\ open \subseteq 1..started /\ open \subseteq {shown.controller}
        /\ shown.controller \in 0..started /\ shown.controller # r
        /\ mode \in Modes /\ sent \in 0..MaxPayloads /\ epoch \in 0..MaxResets
    BY <1>2, <1>4 DEF IInv, RunsInv
  <2>2. /\ shown' = [controller |-> r, streaming |-> TRUE, context |-> context']
        /\ aborted' = open' \cap (aborted \cup {shown.controller})
    BY <1>2, <1>3, <2>1 DEF Current, Signals
  <2>3. shown'.controller = r /\ shown'.streaming = TRUE
    BY <2>2
  <2>4. open' \subseteq 1..r /\ aborted' \subseteq open' /\ open' \ aborted' \subseteq {r}
    BY <1>2, <1>5, <1>6, <2>1, <2>2
  <2> QED
    BY <1>1, <1>2, <1>4, <2>1, <2>3, <2>4 DEF RunsInv
<1>8. Kept(content, r, more)
  BY <1>1, <1>3, ContentsKeep
<1>9. Kept([assistant |-> assistant', chat |-> chat'], r, more)
  BY <1>3, <1>8, RenderedKeeps
<1>10. TranscriptInv'
  <2>1. IsList(updates') /\ \A n \in DOMAIN updates' : Fits(updates'[n], started', {})
    BY <1>3, NoUpdates
  <2>2. more \subseteq 1..r
    BY <1>1, <1>5
  <2> QED
    BY <1>2, <1>9, <2>1, <2>2 DEF TranscriptInv, more
<1> QED
  BY <1>7, <1>10 DEF IInv

\* The transcript stays as it is.
LEMMA TranscriptStays ==
  ASSUME IInv, UNCHANGED <<started, assistant, chat, updates, overtaken>>
  PROVE  TranscriptInv'
BY DEF IInv, TranscriptInv

LEMMA AbortRunKeeps ==
  ASSUME IInv, AbortRun
  PROVE  IInv'
<1>1. UNCHANGED <<mode, started, open, controller, streaming, shown, assistant, chat, updates,
                  refused, sent, overtaken, epoch>>
  BY DEF AbortRun
<1>2. aborted' = aborted \cup (open \cap {shown.controller})
  BY DEF AbortRun
<1>3. RunsInv'
  BY <1>1, <1>2 DEF IInv, RunsInv
<1> QED
  BY <1>1, <1>3, TranscriptStays DEF IInv

\* What is rendered of the runs.
LEMMA RenderedRuns ==
  ASSUME IInv, UNCHANGED <<started, open, controller, sent>>,
         streaming' \in BOOLEAN, refused' \in BOOLEAN, mode' \in Modes, epoch' \in 0..MaxResets,
         shown' = Current', NEW signals, aborted \subseteq signals, aborted' = Signals(signals)
  PROVE  RunsInv'
<1>1. shown' = [controller |-> controller, streaming |-> streaming', context |-> context']
  BY DEF Current
<1>2. shown'.controller = controller /\ shown'.streaming = streaming'
  BY <1>1
<1>3. aborted' = open \cap (signals \cup IF controller # shown.controller THEN {shown.controller} ELSE {})
  BY DEF Signals
<1>4. open \ aborted' \subseteq {started} \cap {controller}
  <2>1. open \ aborted \subseteq {started} \cap {shown.controller}
    BY DEF IInv, RunsInv
  <2>2. aborted \cap open \subseteq aborted'
    BY <1>3
  <2>3. CASE controller = shown.controller
    BY <2>1, <2>2, <2>3
  <2>4. CASE controller # shown.controller
    BY <1>3, <2>1, <2>2, <2>4
  <2> QED
    BY <2>3, <2>4
<1>5. aborted' \subseteq open
  BY <1>3
<1>6. /\ started \in 0..MaxRuns /\ open \subseteq 1..started /\ controller \in 0..started
      /\ sent \in 0..MaxPayloads
  BY DEF IInv, RunsInv
<1> QED
  BY <1>2, <1>4, <1>5, <1>6 DEF RunsInv

\* A reset empties the transcript, whatever the functions before it make of refs that are reset
\* before or after them.
LEMMA StartOverKeeps ==
  ASSUME PageAssumption, IInv,
         NEW refs \in {NoMessage, assistant}, NEW content \in Contents(updates \o Reset, refs),
         StartOver(content), mode' \in Modes, assistant' \in {content.assistant, NoMessage}
  PROVE  IInv'
<1>1. /\ UNCHANGED <<started, open, controller, sent, overtaken>>
      /\ streaming' = FALSE /\ refused' = FALSE /\ epoch' = epoch + 1 /\ epoch < MaxResets
      /\ chat' = content.chat /\ updates' = << >> /\ shown' = Current'
      /\ aborted' = Signals(aborted \cup {shown.controller})
  BY DEF StartOver, Rendered
<1>2. RunsInv'
  <2>1. epoch' \in 0..MaxResets
    <3>1. epoch \in 0..MaxResets /\ MaxResets \in Nat
      BY Bounds DEF IInv, RunsInv
    <3> QED
      BY <1>1, <3>1
  <2>2. aborted \subseteq aborted \cup {shown.controller}
    OBVIOUS
  <2>3. streaming' \in BOOLEAN /\ refused' \in BOOLEAN
    BY <1>1
  <2>4. UNCHANGED <<started, open, controller, sent>>
    BY <1>1
  <2> QED
    BY <1>1, <2>1, <2>2, <2>3, <2>4, RenderedRuns
<1>3. /\ started \in Nat /\ overtaken \subseteq 1..started
      /\ IsList(updates) /\ \A n \in DOMAIN updates : Fits(updates[n], started, {})
      /\ Kept([assistant |-> assistant, chat |-> chat], started, overtaken)
  BY Bounds DEF IInv, RunsInv, TranscriptInv
<1>4. content.chat = << >> /\ content.assistant.id \in Nat
  <2>1. \A more : \A n \in DOMAIN updates : Fits(updates[n], started, more)
    BY <1>3, FitsMore
  <2>2. CASE refs = assistant
    BY <1>3, <2>1, <2>2, ResetContents
  <2>3. CASE refs = NoMessage
    <3>1. Kept([assistant |-> NoMessage, chat |-> chat], started, 1..started)
      BY <1>3, ResetRefs
    <3> QED
      BY <1>3, <2>1, <2>3, <3>1, ResetContents
  <2> QED
    BY <2>2, <2>3
<1>5. assistant'.id \in Nat
  BY <1>4 DEF NoMessage
<1>6. Kept([assistant |-> assistant', chat |-> chat'], started, overtaken)
  BY <1>1, <1>4, <1>5, EmptyKept
<1>7. IsList(updates') /\ \A n \in DOMAIN updates' : Fits(updates'[n], started, {})
  BY <1>1, NoUpdates
<1>8. TranscriptInv'
  BY <1>1, <1>3, <1>6, <1>7 DEF TranscriptInv
<1> QED
  BY <1>2, <1>8 DEF IInv

LEMMA ClearKeeps ==
  ASSUME PageAssumption, IInv, Clear
  PROVE  IInv'
<1>1. PICK content \in Contents(updates \o Reset, NoMessage) :
        StartOver(content) /\ assistant' = content.assistant
  BY DEF Clear
<1>2. mode' \in Modes
  BY DEF Clear, IInv, RunsInv
<1> QED
  BY <1>1, <1>2, StartOverKeeps

LEMMA ChangeModeKeeps ==
  ASSUME PageAssumption, IInv, ChangeMode
  PROVE  IInv'
<1>1. PICK content \in Contents(updates \o Reset, assistant) : StartOver(content)
  BY DEF ChangeMode
<1>2. mode' \in Modes /\ assistant' = NoMessage
  BY DEF ChangeMode
<1> QED
  BY <1>1, <1>2, StartOverKeeps

LEMMA CommitKeeps ==
  ASSUME PageAssumption, IInv, Commit
  PROVE  IInv'
<1>1. PICK content \in Contents(updates, assistant) :
        /\ assistant' = content.assistant /\ chat' = content.chat /\ updates' = << >>
        /\ shown' = Current' /\ aborted' = Signals(aborted)
  BY DEF Commit, Rendered
<1>2. UNCHANGED <<mode, started, open, controller, streaming, refused, sent, overtaken, epoch>>
  BY DEF Commit
<1>3. RunsInv'
  <2>1. streaming' \in BOOLEAN /\ refused' \in BOOLEAN /\ mode' \in Modes /\ epoch' \in 0..MaxResets
    BY <1>2 DEF IInv, RunsInv
  <2> QED
    BY <1>1, <1>2, <2>1, RenderedRuns
<1>4. /\ started \in Nat /\ overtaken \subseteq 1..started
      /\ IsList(updates) /\ \A n \in DOMAIN updates : Fits(updates[n], started, {})
      /\ Kept([assistant |-> assistant, chat |-> chat], started, overtaken)
  BY Bounds DEF IInv, RunsInv, TranscriptInv
<1>5. Kept(content, started, overtaken)
  <2>1. Len(updates) \in Nat /\ DOMAIN updates = 1..Len(updates)
    BY <1>4 DEF IsList
  <2>2. \A n \in 1..Len(updates) : Fits(updates[n], started, overtaken)
    BY <1>4, <2>1, FitsMore
  <2> QED
    BY <1>1, <1>4, <2>1, <2>2, ContentsKeep
<1>6. Kept([assistant |-> assistant', chat |-> chat'], started, overtaken)
  BY <1>1, <1>5, RenderedKeeps
<1>7. IsList(updates') /\ \A n \in DOMAIN updates' : Fits(updates'[n], started, {})
  BY <1>1, NoUpdates
<1>8. TranscriptInv'
  BY <1>2, <1>4, <1>6, <1>7 DEF TranscriptInv
<1> QED
  BY <1>3, <1>8 DEF IInv

LEMMA ReceiveKeeps ==
  ASSUME PageAssumption, IInv, Receive
  PROVE  IInv'
<1>1. /\ UNCHANGED <<mode, started, open, aborted, controller, streaming, shown, assistant, chat,
                     updates, refused, overtaken, epoch>>
      /\ sent < MaxPayloads /\ sent' = sent + 1
  BY DEF Receive
<1>2. sent' \in 0..MaxPayloads
  <2>1. sent \in 0..MaxPayloads /\ MaxPayloads \in Nat
    BY Bounds DEF IInv, RunsInv
  <2> QED
    BY <1>1, <2>1
<1>3. RunsInv'
  BY <1>1, <1>2 DEF IInv, RunsInv
<1> QED
  BY <1>1, <1>3, TranscriptStays DEF IInv

\* One more function waits.
LEMMA QueuedKeeps ==
  ASSUME IInv, NEW update, Fits(update, started, {}), updates' = updates \o <<update>>,
         UNCHANGED <<started, assistant, chat, overtaken>>
  PROVE  TranscriptInv'
<1>1. IsList(updates) /\ \A n \in DOMAIN updates : Fits(updates[n], started, {})
  BY DEF IInv, TranscriptInv
<1>2. /\ IsList(updates') /\ DOMAIN updates' = 1..(Len(updates) + 1) /\ Len(updates) \in Nat
      /\ DOMAIN updates = 1..Len(updates)
      /\ \A n \in 1..Len(updates) : updates'[n] = updates[n]
      /\ updates'[Len(updates) + 1] = update
  BY <1>1, Queued
<1>3. \A n \in DOMAIN updates' : Fits(updates'[n], started, {})
  BY <1>1, <1>2
<1> QED
  BY <1>2, <1>3 DEF IInv, TranscriptInv

LEMMA HandleWorkbenchFrameKeeps ==
  ASSUME IInv, HandleWorkbenchFrame
  PROVE  IInv'
<1>1. UNCHANGED <<mode, started, open, aborted, controller, shown, assistant, chat, sent, overtaken, epoch>>
  BY DEF HandleWorkbenchFrame
<1>2. started \in open /\ open \subseteq 1..started /\ streaming \in BOOLEAN /\ refused \in BOOLEAN
  BY DEF HandleWorkbenchFrame, Reading, IInv, RunsInv
<1>3. PICK value :
        \/ HandleMeta(value)
        \/ HandleStatus(value)
        \/ HandleText(value)
        \/ HandleA2ui(value)
  BY DEF HandleWorkbenchFrame
<1>4. CASE HandleMeta(value)
  <2>1. UNCHANGED <<streaming, refused, updates>>
    BY <1>4 DEF HandleMeta
  <2>2. RunsInv'
    BY <1>1, <2>1 DEF IInv, RunsInv
  <2> QED
    BY <1>1, <2>1, <2>2, TranscriptStays DEF IInv
<1>5. CASE HandleStatus(value)
  <2>1. UNCHANGED <<refused, updates>> /\ streaming' \in BOOLEAN
    BY <1>5 DEF HandleStatus
  <2>2. RunsInv'
    BY <1>1, <2>1 DEF IInv, RunsInv
  <2> QED
    BY <1>1, <2>1, <2>2, TranscriptStays DEF IInv
<1>6. CASE HandleText(value)
  <2> DEFINE update == [kind |-> "text", run |-> started, role |-> "assistant", text |-> value]
  <2>1. UNCHANGED <<streaming, refused>> /\ updates' = updates \o <<update>>
    BY <1>6 DEF HandleText, Text
  <2>2. update.kind = "text" /\ update.run = started
    OBVIOUS
  <2> HIDE DEF update
  <2>3. Fits(update, started, {})
    BY <1>2, <2>2 DEF Fits
  <2>4. RunsInv'
    BY <1>1, <2>1 DEF IInv, RunsInv
  <2> QED
    BY <1>1, <2>1, <2>3, <2>4, QueuedKeeps DEF IInv
<1>7. CASE HandleA2ui(value)
  <2>1. UNCHANGED <<streaming, updates>> /\ refused' \in BOOLEAN
    BY <1>7 DEF HandleA2ui, ProcessA2uiMessages
  <2>2. RunsInv'
    BY <1>1, <2>1 DEF IInv, RunsInv
  <2> QED
    BY <1>1, <2>1, <2>2, TranscriptStays DEF IInv
<1> QED
  BY <1>3, <1>4, <1>5, <1>6, <1>7

LEMMA ReturnKeeps ==
  ASSUME IInv, NEW r, Return(r), streaming' = FALSE
  PROVE  RunsInv' /\ UNCHANGED <<started, assistant, chat, overtaken>>
<1>1. /\ UNCHANGED <<mode, started, shown, assistant, chat, refused, sent, overtaken, epoch>>
      /\ open' = open \ {r} /\ aborted' = aborted \ {r} /\ controller' = 0
  BY DEF Return, NoRun
<1>2. 0 \in 0..started
  BY Bounds DEF IInv, RunsInv
<1> QED
  BY <1>1, <1>2 DEF IInv, RunsInv

LEMMA ReadEndKeeps ==
  ASSUME IInv, ReadEnd
  PROVE  IInv'
<1>1. Return(started) /\ streaming' = FALSE /\ UNCHANGED updates
  BY DEF ReadEnd
<1> QED
  BY <1>1, ReturnKeeps, TranscriptStays DEF IInv

LEMMA CatchAbortKeeps ==
  ASSUME IInv, CatchAbort
  PROVE  IInv'
<1>1. PICK r \in open \cap aborted :
        streaming' = FALSE /\ updates' = updates \o Say(r, "system") /\ Return(r)
  BY DEF CatchAbort
<1> DEFINE update == [kind |-> "say", run |-> r, role |-> "system", text |-> << >>]
<1>2. updates' = updates \o <<update>>
  BY <1>1 DEF Say
<1>3. update.kind = "say" /\ update.run = r /\ update.role = "system"
  OBVIOUS
<1> HIDE DEF update
<1>4. r \in 1..started
  BY DEF IInv, RunsInv
<1>5. Fits(update, started, {})
  BY <1>3, <1>4 DEF Fits
<1> QED
  BY <1>1, <1>2, <1>5, ReturnKeeps, QueuedKeeps DEF IInv

\* A step that changes nothing.
LEMMA StutterKeeps ==
  ASSUME IInv, UNCHANGED vars
  PROVE  IInv'
<1>1. UNCHANGED <<mode, started, open, aborted, controller, streaming, shown, assistant, chat,
                  updates, refused, sent, overtaken, epoch>>
  BY DEF vars
<1>2. RunsInv'
  BY <1>1 DEF IInv, RunsInv
<1> QED
  BY <1>1, <1>2, TranscriptStays DEF IInv

\* Where the refs and the transcript come from, run by run.
THEOREM TranscriptInvariance ==
  Spec => []IInv
<1>1. Init => IInv
  BY PageAssumption, InitKeeps
<1>2. IInv /\ [Next]_vars => IInv'
  <2> SUFFICES ASSUME IInv, [Next]_vars PROVE IInv'
    OBVIOUS
  <2>1. CASE Run
    BY <2>1, PageAssumption, RunKeeps
  <2>2. CASE AbortRun
    BY <2>2, AbortRunKeeps
  <2>3. CASE Clear
    BY <2>3, PageAssumption, ClearKeeps
  <2>4. CASE ChangeMode
    BY <2>4, PageAssumption, ChangeModeKeeps
  <2>5. CASE Commit
    BY <2>5, PageAssumption, CommitKeeps
  <2>6. CASE Receive
    BY <2>6, PageAssumption, ReceiveKeeps
  <2>7. CASE HandleWorkbenchFrame
    BY <2>7, HandleWorkbenchFrameKeeps
  <2>8. CASE ReadEnd
    BY <2>8, ReadEndKeeps
  <2>9. CASE CatchAbort
    BY <2>9, CatchAbortKeeps
  <2>10. CASE UNCHANGED vars
    BY <2>10, StutterKeeps
  <2> QED
    BY <2>1, <2>2, <2>3, <2>4, <2>5, <2>6, <2>7, <2>8, <2>9, <2>10 DEF Next
<1> QED
  BY <1>1, <1>2, PTL DEF Spec

\* The types of the page: of the runs that are not aborted at most the last one is read, the
\* transcript is no longer than its limit, and no two messages have one number.
THEOREM TypeCorrect ==
  Spec => []TypeOK
<1>1. IInv => TypeOK
  <2> SUFFICES ASSUME IInv PROVE TypeOK
    OBVIOUS
  <2> DEFINE content == [assistant |-> assistant, chat |-> chat]
  <2>1. content.assistant = assistant /\ content.chat = chat
    OBVIOUS
  <2>2. Kept(content, started, overtaken)
    BY DEF IInv, TranscriptInv
  <2> HIDE DEF content
  <2>3. assistant.id \in Nat /\ Len(chat) <= ChatLimit
    BY <2>1, <2>2 DEF Kept, Numbered
  <2>4. \A i, j \in DOMAIN chat : chat[i].id = chat[j].id => i = j
    BY <2>1, <2>2 DEF Kept, Arranged, Apart
  <2>5. overtaken \subseteq Runs
    <3>1. started \in 0..MaxRuns /\ MaxRuns \in Nat /\ overtaken \subseteq 1..started
      BY PageAssumption, Bounds DEF IInv, RunsInv, TranscriptInv
    <3> QED
      BY <3>1 DEF Runs
  <2> QED
    BY <2>3, <2>4, <2>5 DEF IInv, RunsInv, TypeOK
<1> QED
  BY <1>1, TranscriptInvariance, PTL

\* What an agent says in a run is one message, which holds no text of another run, but for runs
\* whose text was waiting to be rendered when the next one started.
THEOREM MessagesCorrect ==
  Spec => []OneMessagePerRun
<1>1. IInv => OneMessagePerRun
  <2> SUFFICES ASSUME IInv PROVE OneMessagePerRun
    OBVIOUS
  <2> DEFINE content == [assistant |-> assistant, chat |-> chat]
  <2>1. content.assistant = assistant /\ content.chat = chat
    OBVIOUS
  <2>2. Kept(content, started, overtaken)
    BY DEF IInv, TranscriptInv
  <2> HIDE DEF content
  <2>3. Arranged(chat, assistant.id, started, overtaken)
    BY <2>1, <2>2 DEF Kept
  <2>4. ASSUME NEW i \in DOMAIN chat, Assistant(chat[i])
        PROVE  Cardinality(chat[i].runs) = 1 \/ chat[i].runs \cap overtaken # {}
    <3>1. (\E s \in 1..started : chat[i].runs = {s}) \/ chat[i].runs \cap overtaken # {}
      BY <2>3, <2>4 DEF Arranged, Holds
    <3>2. \A s : Cardinality({s}) = 1
      BY FS_Singleton
    <3> QED
      BY <3>1, <3>2
  <2>5. ASSUME NEW i \in DOMAIN chat, NEW j \in DOMAIN chat, i # j,
               Assistant(chat[i]), Assistant(chat[j])
        PROVE  chat[i].runs \cap chat[j].runs \subseteq overtaken
    BY <2>3, <2>5 DEF Arranged, Apart
  <2> QED
    BY <2>4, <2>5 DEF OneMessagePerRun
<1> QED
  BY <1>1, TranscriptInvariance, PTL
----------------------------------------------------------------------------
(***************************************************************************)
(* Lists: what is in a concatenation of lists.                             *)
(***************************************************************************)
LEMMA ConcatFacts ==
  ASSUME NEW X, NEW s \in Seq(X), NEW t \in Seq(X)
  PROVE  s \o t \in Seq(X) /\ ToSet(s \o t) = ToSet(s) \cup ToSet(t)
<1>1. /\ s \o t \in Seq(X) /\ Len(s \o t) = Len(s) + Len(t)
      /\ \A i \in 1..(Len(s) + Len(t)) : (s \o t)[i] = IF i <= Len(s) THEN s[i] ELSE t[i - Len(s)]
  BY ConcatProperties
<1>2. Len(s) \in Nat /\ Len(t) \in Nat /\ DOMAIN s = 1..Len(s) /\ DOMAIN t = 1..Len(t)
  OBVIOUS
<1>3. DOMAIN (s \o t) = 1..(Len(s) + Len(t))
  BY <1>1
<1> DEFINE st == s \o t
<1> HIDE DEF st
<1>4. /\ DOMAIN st = 1..(Len(s) + Len(t))
      /\ \A i \in 1..Len(s) : st[i] = s[i] /\ i \in DOMAIN st
      /\ \A i \in 1..Len(t) : st[i + Len(s)] = t[i] /\ i + Len(s) \in DOMAIN st
      /\ \A i \in DOMAIN st : (i \in 1..Len(s) /\ st[i] = s[i])
                            \/ (i - Len(s) \in 1..Len(t) /\ st[i] = t[i - Len(s)])
  <2>1. \A i \in 1..Len(s) : i \in 1..(Len(s) + Len(t)) /\ i <= Len(s)
    BY <1>2
  <2>2. \A i \in 1..Len(t) : i + Len(s) \in 1..(Len(s) + Len(t)) /\ ~(i + Len(s) <= Len(s))
                            /\ (i + Len(s)) - Len(s) = i
    BY <1>2
  <2>3. \A i \in 1..(Len(s) + Len(t)) : (i <= Len(s) => i \in 1..Len(s))
                                      /\ (~(i <= Len(s)) => i - Len(s) \in 1..Len(t))
    BY <1>2
  <2> QED
    BY <1>1, <1>3, <2>1, <2>2, <2>3 DEF st
<1>5. ToSet(st) = ToSet(s) \cup ToSet(t)
  <2>1. ASSUME NEW x \in ToSet(st) PROVE x \in ToSet(s) \cup ToSet(t)
    <3>1. PICK i \in DOMAIN st : x = st[i]
      BY DEF ToSet
    <3>2. CASE i \in 1..Len(s) /\ st[i] = s[i]
      BY <1>2, <3>1, <3>2 DEF ToSet
    <3>3. CASE i - Len(s) \in 1..Len(t) /\ st[i] = t[i - Len(s)]
      BY <1>2, <3>1, <3>3 DEF ToSet
    <3> QED
      BY <1>4, <3>2, <3>3
  <2>2. ASSUME NEW x \in ToSet(s) PROVE x \in ToSet(st)
    <3>1. PICK i \in 1..Len(s) : x = s[i]
      BY <1>2 DEF ToSet
    <3>2. st[i] = s[i] /\ i \in DOMAIN st
      BY <1>4
    <3> QED
      BY <3>1, <3>2 DEF ToSet
  <2>3. ASSUME NEW x \in ToSet(t) PROVE x \in ToSet(st)
    <3>1. PICK i \in 1..Len(t) : x = t[i]
      BY <1>2 DEF ToSet
    <3>2. st[i + Len(s)] = t[i] /\ i + Len(s) \in DOMAIN st
      BY <1>4
    <3> QED
      BY <3>1, <3>2 DEF ToSet
  <2> QED
    BY <2>1, <2>2, <2>3
<1> QED
  BY <1>1, <1>5 DEF st

IsFlattening(g, seqs) ==
  g[0] = << >> /\ \A i \in 1..Len(seqs) : g[i] = g[i - 1] \o seqs[i]

LEMMA Flattening ==
  ASSUME NEW X, NEW seqs \in Seq(Seq(X))
  PROVE  \E g \in [0..Len(seqs) -> Seq(X)] :
           IsFlattening(g, seqs) /\ FlattenSeq(seqs) = g[Len(seqs)]
<1> DEFINE N == Len(seqs)
           T == Seq(X)
           grow == [i \in 1..N |-> [x \in T |-> x \o seqs[i]]]
           Solves(h) == h = [i \in 1..N |-> IF i = 1 THEN seqs[i] ELSE h[i - 1] \o seqs[i]]
           flatten == CHOOSE h : Solves(h)
<1>1. N \in Nat /\ << >> \in T /\ \A i \in 1..N : seqs[i] \in T
  OBVIOUS
<1>2. FlattenSeq(seqs) = IF N = 0 THEN seqs ELSE flatten[N]
  BY DEF FlattenSeq
<1>3. \A i \in 1..N : \A x \in T : grow[i][x] = x \o seqs[i] /\ x \o seqs[i] \in T
  BY <1>1, ConcatProperties
<1> HIDE DEF N, T, grow
<1>4. PICK g : IsIteration(g, T, << >>, N, grow)
  <2>1. IsStep(T, << >>, N, grow)
    BY <1>1, <1>3 DEF IsStep
  <2> QED
    BY <2>1, Iteration
<1>5. g \in [0..N -> T] /\ g[0] = << >> /\ \A i \in 1..N : g[i] = g[i - 1] \o seqs[i]
  <2>1. \A i \in 1..N : i - 1 \in 0..N
    BY <1>1
  <2> QED
    BY <1>3, <1>4, <2>1 DEF IsIteration
<1>6. CASE N = 0
  <2>1. seqs = << >>
    BY <1>6 DEF N
  <2> QED
    BY <1>2, <1>5, <1>6, <2>1 DEF IsFlattening, N, T
<1>7. CASE N # 0
  <2>1. Solves([i \in 1..N |-> g[i]])
    <3>1. \A x \in T : << >> \o x = x
      BY DEF T
    <3>2. \A i \in 1..N : i # 1 => i - 1 \in 1..N
      BY <1>1
    <3>3. g[1] = seqs[1]
      <4>1. 1 \in 1..N /\ 1 - 1 = 0
        BY <1>1, <1>7
      <4>2. seqs[1] \in T
        BY <1>1, <4>1
      <4>3. g[1] = << >> \o seqs[1]
        BY <1>5, <4>1
      <4> QED
        BY <3>1, <4>2, <4>3
    <3> QED
      BY <1>5, <3>2, <3>3
  <2>2. Solves(flatten)
    <3> HIDE DEF Solves
    <3> QED
      BY <2>1
  <2> HIDE DEF flatten
  <2> DEFINE S == {i \in 0..N : i # 0 => flatten[i] = g[i]}
  <2>3. 0 \in S
    BY <1>1
  <2>4. \A i \in 1..N : i - 1 \in S => i \in S
    <3> TAKE i \in 1..N
    <3>1. HAVE i - 1 \in S
    <3>2. flatten[i] = IF i = 1 THEN seqs[i] ELSE flatten[i - 1] \o seqs[i]
      BY <2>2
    <3>3. i \in 0..N /\ i \in Nat /\ i # 0
      BY <1>1
    <3>4. CASE i = 1
      <4>1. g[1] = << >> \o seqs[1]
        <5>1. 1 - 1 = 0
          OBVIOUS
        <5> QED
          BY <1>5, <3>4, <5>1
      <4>2. << >> \o seqs[1] = seqs[1]
        BY <1>1, <3>4 DEF T
      <4> QED
        BY <3>2, <3>3, <3>4, <4>1, <4>2
    <3>5. CASE i # 1
      <4>1. i - 1 # 0
        BY <3>3, <3>5
      <4> QED
        BY <1>5, <3>1, <3>2, <3>3, <3>5, <4>1
    <3> QED
      BY <3>4, <3>5
  <2>5. 0..N \subseteq S
    <3> HIDE DEF S
    <3> QED
      BY <1>1, <2>3, <2>4, InductUpTo
  <2>6. flatten[N] = g[N]
    BY <1>1, <1>7, <2>5
  <2> QED
    BY <1>2, <1>5, <1>7, <2>6 DEF IsFlattening, N, T
<1> QED
  BY <1>6, <1>7

\* What is in some lists and one more.
LEMMA OneListMore ==
  ASSUME NEW seqs, NEW I, NEW J, NEW n, J = I \cup {n}
  PROVE  UNION {ToSet(seqs[i]) : i \in J}
           = (UNION {ToSet(seqs[i]) : i \in I}) \cup ToSet(seqs[n])
<1> DEFINE Old == UNION {ToSet(seqs[i]) : i \in I}
           New == UNION {ToSet(seqs[i]) : i \in J}
<1>1. /\ \A x : x \in New <=> \E i \in J : x \in ToSet(seqs[i])
      /\ \A x : x \in Old <=> \E i \in I : x \in ToSet(seqs[i])
  OBVIOUS
<1> HIDE DEF Old, New
<1>2. \A x : x \in New <=> x \in Old \/ x \in ToSet(seqs[n])
  BY <1>1
<1>3. New = Old \cup ToSet(seqs[n])
  BY <1>2
<1> QED
  BY <1>3 DEF Old, New

\* What is in lists that are put one after the other.
LEMMA FlattenFacts ==
  ASSUME NEW X, NEW seqs \in Seq(Seq(X))
  PROVE  /\ FlattenSeq(seqs) \in Seq(X)
         /\ ToSet(FlattenSeq(seqs)) = UNION {ToSet(seqs[i]) : i \in DOMAIN seqs}
<1> DEFINE N == Len(seqs)
<1>1. N \in Nat /\ DOMAIN seqs = 1..N /\ \A i \in 1..N : seqs[i] \in Seq(X)
  OBVIOUS
<1>2. PICK g \in [0..N -> Seq(X)] : IsFlattening(g, seqs) /\ FlattenSeq(seqs) = g[N]
  BY Flattening
<1> HIDE DEF N
<1> DEFINE S == {n \in 0..N : ToSet(g[n]) = UNION {ToSet(seqs[i]) : i \in 1..n}}
<1>3. 0 \in S
  <2>1. g[0] = << >> /\ 1..0 = {}
    BY <1>2 DEF IsFlattening
  <2>2. ToSet(<< >>) = {}
    BY DEF ToSet
  <2> QED
    BY <1>1, <2>1, <2>2
<1>4. \A n \in 1..N : n - 1 \in S => n \in S
  <2> TAKE n \in 1..N
  <2>1. HAVE n - 1 \in S
  <2>2. g[n] = g[n - 1] \o seqs[n]
    BY <1>2 DEF IsFlattening, N
  <2>3. n - 1 \in 0..N /\ n \in 0..N
    BY <1>1
  <2>4. 1..n = 1..(n - 1) \cup {n}
    <3>1. n \in Nat /\ n >= 1
      BY <1>1
    <3>2. \A i : i \in 1..n <=> i \in 1..(n - 1) \/ i = n
      BY <3>1
    <3> QED
      BY <3>2
  <2>5. ToSet(g[n]) = ToSet(g[n - 1]) \cup ToSet(seqs[n])
    <3>1. g[n - 1] \in Seq(X) /\ seqs[n] \in Seq(X)
      BY <1>1, <1>2, <2>3
    <3> QED
      BY <2>2, <3>1, ConcatFacts
  <2>6. ToSet(g[n - 1]) = UNION {ToSet(seqs[i]) : i \in 1..(n - 1)}
    BY <2>1
  <2>7. UNION {ToSet(seqs[i]) : i \in 1..n}
          = (UNION {ToSet(seqs[i]) : i \in 1..(n - 1)}) \cup ToSet(seqs[n])
    BY <2>4, OneListMore
  <2> QED
    BY <2>3, <2>5, <2>6, <2>7
<1>5. N \in S
  <2>1. 0..N \subseteq S
    <3> HIDE DEF S
    <3> QED
      BY <1>1, <1>3, <1>4, InductUpTo
  <2> QED
    BY <1>1, <2>1
<1>6. g[N] \in Seq(X)
  BY <1>1, <1>2
<1> QED
  BY <1>1, <1>2, <1>5, <1>6

LEMMA MappedList ==
  ASSUME NEW X, NEW list, NEW N \in Nat, DOMAIN list = 1..N, list = [i \in 1..N |-> list[i]],
         \A i \in 1..N : list[i] \in X
  PROVE  list \in Seq(X) /\ Len(list) = N
OBVIOUS

LEMMA OnlyFacts ==
  ASSUME NEW X, NEW list \in Seq(X), NEW set
  PROVE  Only(list, set) \in Seq(X) /\ ToSet(Only(list, set)) = ToSet(list) \cap set
<1> DEFINE seqs == [i \in DOMAIN list |-> IF list[i] \in set THEN <<list[i]>> ELSE << >>]
<1>1. DOMAIN list = 1..Len(list) /\ Len(list) \in Nat /\ \A i \in 1..Len(list) : list[i] \in X
  OBVIOUS
<1>2. /\ DOMAIN seqs = DOMAIN list
      /\ \A i \in DOMAIN list : seqs[i] = IF list[i] \in set THEN <<list[i]>> ELSE << >>
  OBVIOUS
<1>3. seqs \in Seq(Seq(X))
  <2>1. \A i \in 1..Len(list) : seqs[i] \in Seq(X)
    BY <1>1, <1>2
  <2>2. seqs = [i \in 1..Len(list) |-> seqs[i]]
    BY <1>1
  <2> HIDE DEF seqs
  <2> QED
    BY <1>1, <1>2, <2>1, <2>2, MappedList
<1>4. Only(list, set) = FlattenSeq(seqs)
  BY DEF Only
<1> HIDE DEF seqs
<1>5. /\ FlattenSeq(seqs) \in Seq(X)
      /\ ToSet(FlattenSeq(seqs)) = UNION {ToSet(seqs[i]) : i \in DOMAIN seqs}
  BY <1>3, FlattenFacts
<1>6. \A x : ToSet(<<x>>) = {x} /\ ToSet(<< >>) = {}
  BY DEF ToSet
<1>7. \A i \in DOMAIN list : ToSet(seqs[i]) = {list[i]} \cap set
  BY <1>2, <1>6
<1>8. ToSet(list) = {list[i] : i \in DOMAIN list}
  BY DEF ToSet
<1>9. UNION {ToSet(seqs[i]) : i \in DOMAIN seqs} = ToSet(list) \cap set
  BY <1>2, <1>7, <1>8
<1> QED
  BY <1>4, <1>5, <1>9

\* The same of lists of whatever it may be.
LEMMA SomeList ==
  ASSUME NEW list
  PROVE  /\ IsList(list) <=> list \in Seq(ToSet(list))
         /\ \A X : list \in Seq(X) => IsList(list) /\ ToSet(list) \subseteq X
         /\ IsList(list) => \A X : ToSet(list) \subseteq X => list \in Seq(X)
<1>1. ToSet(list) = {list[i] : i \in DOMAIN list}
  BY DEF ToSet
<1>2. ASSUME NEW X, list \in Seq(X) PROVE IsList(list) /\ ToSet(list) \subseteq X
  <2>1. \A i \in 1..Len(list) : list[i] \in ToSet(list) /\ list[i] \in X
    BY <1>1, <1>2
  <2>2. list \in Seq(ToSet(list))
    BY <1>2, <2>1
  <2> QED
    BY <1>1, <1>2, <2>1, <2>2 DEF IsList
<1>3. ASSUME NEW X, list \in Seq(ToSet(list)), ToSet(list) \subseteq X PROVE list \in Seq(X)
  BY <1>3, SeqMonotonic
<1> QED
  BY <1>1, <1>2, <1>3 DEF IsList

LEMMA ConcatLists ==
  ASSUME NEW s, IsList(s), NEW t, IsList(t)
  PROVE  IsList(s \o t) /\ ToSet(s \o t) = ToSet(s) \cup ToSet(t)
<1> DEFINE X == ToSet(s) \cup ToSet(t)
<1>1. s \in Seq(X) /\ t \in Seq(X)
  BY SomeList
<1>2. s \o t \in Seq(X) /\ ToSet(s \o t) = ToSet(s) \cup ToSet(t)
  BY <1>1, ConcatFacts
<1> QED
  BY <1>2, SomeList

LEMMA FlattenLists ==
  ASSUME NEW seqs, IsList(seqs), \A i \in DOMAIN seqs : IsList(seqs[i])
  PROVE  /\ IsList(FlattenSeq(seqs))
         /\ ToSet(FlattenSeq(seqs)) = UNION {ToSet(seqs[i]) : i \in DOMAIN seqs}
<1> DEFINE X == UNION {ToSet(seqs[i]) : i \in DOMAIN seqs}
<1>1. \A i \in DOMAIN seqs : seqs[i] \in Seq(X)
  <2> TAKE i \in DOMAIN seqs
  <2>1. ToSet(seqs[i]) \subseteq X
    OBVIOUS
  <2> QED
    BY <2>1, SomeList
<1>2. seqs \in Seq(Seq(X))
  <2>1. ToSet(seqs) \subseteq Seq(X)
    BY <1>1 DEF ToSet
  <2> QED
    BY <2>1, SomeList
<1> QED
  BY <1>2, FlattenFacts, SomeList

LEMMA OnlyLists ==
  ASSUME NEW list, IsList(list), NEW set
  PROVE  IsList(Only(list, set)) /\ ToSet(Only(list, set)) = ToSet(list) \cap set
<1>1. list \in Seq(ToSet(list))
  BY SomeList
<1> QED
  BY <1>1, OnlyFacts, SomeList

LEMMA SmallLists ==
  /\ IsList(<< >>) /\ ToSet(<< >>) = {}
  /\ \A x : IsList(<<x>>) /\ ToSet(<<x>>) = {x}
<1>1. ToSet(<< >>) = {} /\ << >> \in Seq({})
  BY DEF ToSet
<1>2. ASSUME NEW x PROVE <<x>> \in Seq({x}) /\ ToSet(<<x>>) = {x}
  BY DEF ToSet
<1> QED
  BY <1>1, <1>2, SomeList

\* A list that is made element by element.
LEMMA MadeList ==
  ASSUME NEW list, IsList(list), NEW made, made = [i \in DOMAIN list |-> made[i]]
  PROVE  IsList(made) /\ DOMAIN made = DOMAIN list /\ ToSet(made) = {made[i] : i \in DOMAIN list}
<1>1. DOMAIN list = 1..Len(list) /\ Len(list) \in Nat
  BY DEF IsList
<1>2. DOMAIN made = DOMAIN list
  OBVIOUS
<1>3. ToSet(made) = {made[i] : i \in DOMAIN list}
  BY <1>2 DEF ToSet
<1>4. \A i \in 1..Len(list) : made[i] \in ToSet(made)
  BY <1>1, <1>3
<1>5. made \in Seq(ToSet(made))
  BY <1>1, <1>2, <1>4, MappedList
<1> QED
  BY <1>2, <1>3, <1>5, SomeList

\* A finite set as a list.
LEMMA ListOfSet ==
  ASSUME NEW S, IsFiniteSet(S)
  PROVE  IsList(SetToSeq(S)) /\ ToSet(SetToSeq(S)) = S
<1> DEFINE N == Cardinality(S)
           list == SetToSeq(S)
<1>1. N \in Nat
  BY FS_CardinalityType
<1>2. \E f : f \in Bijection(1..N, S)
  BY FS_CardinalityType DEF ExistsBijection
<1>3. \E f \in [1..N -> S] : IsInjective(f)
  BY <1>2 DEF Bijection, Injection, IsInjective
<1>4. list \in [1..N -> S] /\ IsInjective(list)
  BY <1>3 DEF SetToSeq
<1> HIDE DEF N, list
<1>5. list \in Injection(1..N, S)
  BY <1>4 DEF Injection
<1>6. Cardinality(1..N) = Cardinality(S)
  <2>1. Cardinality(1..N) = IF 1 > N THEN 0 ELSE N - 1 + 1
    BY <1>1, FS_Interval
  <2> QED
    BY <1>1, <2>1 DEF N
<1>7. list \in Surjection(1..N, S)
  BY <1>5, <1>6, FS_Injection
<1>8. \A x \in S : \E i \in 1..N : list[i] = x
  BY <1>7 DEF Surjection
<1>9. ToSet(list) = S
  BY <1>4, <1>8 DEF ToSet
<1>10. list \in Seq(S)
  BY <1>1, <1>4
<1> QED
  BY <1>9, <1>10, SomeList DEF list
----------------------------------------------------------------------------
(***************************************************************************)
(* What a payload of A2UI is made into: messages of known kinds, that      *)
(* create every surface they name and give it components, with a root.     *)
(***************************************************************************)
\* Before what is missing is added.
Normal(m) == m.kind \in Kinds /\ (m.kind = "updateComponents" => "root" \in m.components)

WellMade(M) ==
  \A m \in M :
    /\ Normal(m)
    /\ \E c \in M : c.kind = "createSurface" /\ c.surfaceId = m.surfaceId
    /\ \E u \in M : u.kind = "updateComponents" /\ u.surfaceId = m.surfaceId

\* The surface a message is about.
SurfaceOf(item) == IF item.surfaceId = "" THEN DefaultSurfaceId ELSE item.surfaceId

LEMMA CollectFacts ==
  ASSUME NEW payload, IsList(payload.items)
  PROVE  /\ IsList(CollectA2uiMessages(payload))
         /\ ToSet(CollectA2uiMessages(payload)) \subseteq {m \in ToSet(payload.items) : m.kind \in Kinds}
<1>1. LET known == Only(payload.items, {item \in ToSet(payload.items) : item.kind \in Kinds})
      IN  IsList(known) /\ ToSet(known) \subseteq {m \in ToSet(payload.items) : m.kind \in Kinds}
  BY OnlyLists
<1> QED
  BY <1>1, SmallLists DEF CollectA2uiMessages

LEMMA NormalizeFacts ==
  ASSUME NEW m, m.kind \in Kinds
  PROVE  /\ IsList(NormalizeA2uiMessage(m))
         /\ \A n \in ToSet(NormalizeA2uiMessage(m)) : Normal(n) /\ n.surfaceId = SurfaceOf(m)
<1> DEFINE components == IF m.kind = "updateComponents" THEN EnsureRootComponent(m.components) ELSE {}
           normal == Message(m.kind, SurfaceOf(m), components)
<1>1. m.kind = "updateComponents" => "root" \in components
  BY DEF EnsureRootComponent
<1>2. NormalizeA2uiMessage(m) = << >> \/ NormalizeA2uiMessage(m) = <<normal>>
  BY DEF NormalizeA2uiMessage, SurfaceOf
<1> HIDE DEF components
<1>3. /\ normal.kind = m.kind /\ normal.surfaceId = SurfaceOf(m)
      /\ normal.components = components
  BY DEF Message
<1> HIDE DEF normal
<1>4. Normal(normal) /\ normal.surfaceId = SurfaceOf(m)
  BY <1>1, <1>3 DEF Normal
<1> QED
  BY <1>2, <1>4, SmallLists

LEMMA FiniteLists ==
  ASSUME NEW list, IsList(list), NEW S \in SUBSET SurfaceIds(list)
  PROVE  IsFiniteSet(S)
<1>1. DOMAIN list = 1..Len(list) /\ Len(list) \in Nat
  BY DEF IsList
<1>2. IsFiniteSet(1..Len(list))
  BY <1>1, FS_Interval
<1> DEFINE f == [i \in 1..Len(list) |-> list[i].surfaceId]
<1>3. f \in Surjection(1..Len(list), SurfaceIds(list))
  BY <1>1 DEF Surjection, SurfaceIds, ToSet
<1>4. IsFiniteSet(SurfaceIds(list))
  BY <1>2, <1>3, FS_Surjection
<1> QED
  BY <1>4, FS_Subset

\* Messages that are added for surfaces.
LEMMA Added ==
  ASSUME NEW S, IsFiniteSet(S)
  PROVE  /\ LET creates == ForEach(S, CreateSurfaceMessage)
             IN  IsList(creates) /\ ToSet(creates) = {CreateSurfaceMessage(s) : s \in S}
         /\ LET updates_ == ForEach(S, FallbackComponentsMessage)
             IN  IsList(updates_) /\ ToSet(updates_) = {FallbackComponentsMessage(s) : s \in S}
<1> DEFINE ids == SetToSeq(S)
<1>1. IsList(ids) /\ ToSet(ids) = S
  BY ListOfSet
<1>2. ForEach(S, CreateSurfaceMessage) = [i \in DOMAIN ids |-> CreateSurfaceMessage(ids[i])]
  BY DEF ForEach
<1>3. ForEach(S, FallbackComponentsMessage) = [i \in DOMAIN ids |-> FallbackComponentsMessage(ids[i])]
  BY DEF ForEach
<1> HIDE DEF ids
<1>4. S = {ids[i] : i \in DOMAIN ids}
  BY <1>1 DEF ToSet
<1> DEFINE creates == [i \in DOMAIN ids |-> CreateSurfaceMessage(ids[i])]
           fallbacks == [i \in DOMAIN ids |-> FallbackComponentsMessage(ids[i])]
<1>5. IsList(creates) /\ ToSet(creates) = {CreateSurfaceMessage(s) : s \in S}
  <2>1. /\ creates = [i \in DOMAIN ids |-> creates[i]]
        /\ \A i \in DOMAIN ids : creates[i] = CreateSurfaceMessage(ids[i])
    OBVIOUS
  <2> HIDE DEF creates
  <2>2. IsList(creates) /\ ToSet(creates) = {creates[i] : i \in DOMAIN ids}
    BY <1>1, <2>1, MadeList
  <2> QED
    BY <1>4, <2>1, <2>2
<1>6. IsList(fallbacks) /\ ToSet(fallbacks) = {FallbackComponentsMessage(s) : s \in S}
  <2>1. /\ fallbacks = [i \in DOMAIN ids |-> fallbacks[i]]
        /\ \A i \in DOMAIN ids : fallbacks[i] = FallbackComponentsMessage(ids[i])
    OBVIOUS
  <2> HIDE DEF fallbacks
  <2>2. IsList(fallbacks) /\ ToSet(fallbacks) = {fallbacks[i] : i \in DOMAIN ids}
    BY <1>1, <2>1, MadeList
  <2> QED
    BY <1>4, <2>1, <2>2
<1> QED
  BY <1>2, <1>3, <1>5, <1>6

LEMMA EnsureFacts ==
  ASSUME NEW messages, IsList(messages), \A m \in ToSet(messages) : Normal(m)
  PROVE  LET ensured == EnsureRenderableMessages(messages)
         IN  /\ IsList(ensured)
             /\ WellMade(ToSet(ensured))
             /\ SurfaceIds(ensured) \subseteq SurfaceIds(messages)
<1> DEFINE ids == SurfaceIds(messages)
           uncreated == ids \ SurfacesOf("createSurface", messages)
           bare == ids \ SurfacesOf("updateComponents", messages)
           creates == ForEach(uncreated, CreateSurfaceMessage)
           fallbacks == ForEach(bare, FallbackComponentsMessage)
           M == ToSet(messages)
           C == {CreateSurfaceMessage(s) : s \in uncreated}
           F == {FallbackComponentsMessage(s) : s \in bare}
           ensured == (creates \o messages) \o fallbacks
<1>1. IsFiniteSet(uncreated) /\ IsFiniteSet(bare)
  BY FiniteLists
<1>2. IsList(creates) /\ ToSet(creates) = C /\ IsList(fallbacks) /\ ToSet(fallbacks) = F
  BY <1>1, Added
<1>3. EnsureRenderableMessages(messages) = ensured
  BY DEF EnsureRenderableMessages
<1>4. /\ \A s \in ids : CreateSurfaceMessage(s).kind = "createSurface" /\ CreateSurfaceMessage(s).surfaceId = s
      /\ \A s \in ids : Normal(CreateSurfaceMessage(s))
  BY DEF CreateSurfaceMessage, Message, Normal, Kinds
<1>5. /\ \A s \in ids : FallbackComponentsMessage(s).kind = "updateComponents"
                      /\ FallbackComponentsMessage(s).surfaceId = s
      /\ \A s \in ids : Normal(FallbackComponentsMessage(s))
  <2>1. "root" \in EnsureRootComponent({})
    BY DEF EnsureRootComponent
  <2> QED
    BY <2>1 DEF FallbackComponentsMessage, Message, Normal, Kinds
<1>6. /\ ids = {m.surfaceId : m \in M}
      /\ uncreated = {s \in ids : \A m \in M : m.kind = "createSurface" => m.surfaceId # s}
      /\ bare = {s \in ids : \A m \in M : m.kind = "updateComponents" => m.surfaceId # s}
  BY DEF SurfaceIds, SurfacesOf
<1> HIDE DEF uncreated, bare, creates, fallbacks, ids
<1>7. IsList(ensured) /\ ToSet(ensured) = C \cup M \cup F
  <2>1. IsList(creates \o messages) /\ ToSet(creates \o messages) = C \cup M
    BY <1>2, ConcatLists
  <2> HIDE DEF C, M, F
  <2> QED
    BY <1>2, <2>1, ConcatLists
<1>8. \A m \in C \cup M \cup F : m.surfaceId \in ids /\ Normal(m)
  BY <1>4, <1>5, <1>6
<1>9. \A s \in ids : \E c \in C \cup M \cup F : c.kind = "createSurface" /\ c.surfaceId = s
  BY <1>4, <1>6
<1>10. \A s \in ids : \E u \in C \cup M \cup F : u.kind = "updateComponents" /\ u.surfaceId = s
  BY <1>5, <1>6
<1> HIDE DEF C, M, F, ensured
<1>11. WellMade(ToSet(ensured))
  BY <1>7, <1>8, <1>9, <1>10 DEF WellMade
<1>12. SurfaceIds(ensured) \subseteq ids
  BY <1>7, <1>8 DEF SurfaceIds
<1> QED
  BY <1>3, <1>7, <1>11, <1>12 DEF ids

\* The surfaces that the messages of a payload name.
Names(payload) == {SurfaceOf(item) : item \in ToSet(payload.items)}

LEMMA PayloadFacts ==
  ASSUME NEW payload, IsList(payload.items)
  PROVE  LET messages == NormalizeA2uiPayload(payload)
         IN  /\ IsList(messages)
             /\ WellMade(ToSet(messages))
             /\ SurfaceIds(messages) \subseteq Names(payload)
<1> DEFINE collected == CollectA2uiMessages(payload)
           normal == [i \in DOMAIN collected |-> NormalizeA2uiMessage(collected[i])]
           flat == FlattenSeq(normal)
<1>1. IsList(collected) /\ ToSet(collected) \subseteq {m \in ToSet(payload.items) : m.kind \in Kinds}
  BY CollectFacts
<1>2. NormalizeA2uiPayload(payload) = EnsureRenderableMessages(flat)
  BY DEF NormalizeA2uiPayload
<1>3. /\ normal = [i \in DOMAIN collected |-> normal[i]]
      /\ \A i \in DOMAIN collected : normal[i] = NormalizeA2uiMessage(collected[i])
  OBVIOUS
<1> HIDE DEF collected, normal
<1>4. \A i \in DOMAIN collected : collected[i] \in ToSet(payload.items) /\ collected[i].kind \in Kinds
  BY <1>1 DEF ToSet
<1>5. IsList(normal) /\ DOMAIN normal = DOMAIN collected
  BY <1>1, <1>3, MadeList
<1>6. \A i \in DOMAIN normal : IsList(normal[i])
        /\ \A n \in ToSet(normal[i]) : Normal(n) /\ n.surfaceId \in Names(payload)
  BY <1>3, <1>4, <1>5, NormalizeFacts DEF Names
<1>7. IsList(flat) /\ ToSet(flat) = UNION {ToSet(normal[i]) : i \in DOMAIN normal}
  BY <1>5, <1>6, FlattenLists
<1> HIDE DEF flat
<1>8. \A m \in ToSet(flat) : Normal(m) /\ m.surfaceId \in Names(payload)
  BY <1>6, <1>7
<1>9. SurfaceIds(flat) \subseteq Names(payload)
  BY <1>8 DEF SurfaceIds
<1> QED
  BY <1>2, <1>7, <1>8, <1>9, EnsureFacts

LEMMA NormalizeAllFacts ==
  ASSUME NEW payloads, IsList(payloads), \A payload \in ToSet(payloads) : IsList(payload.items)
  PROVE  LET messages == NormalizeAll(payloads)
         IN  /\ IsList(messages)
             /\ WellMade(ToSet(messages))
             /\ SurfaceIds(messages) \subseteq UNION {Names(payload) : payload \in ToSet(payloads)}
<1> DEFINE lists == [i \in DOMAIN payloads |-> NormalizeA2uiPayload(payloads[i])]
           all == FlattenSeq(lists)
           N == UNION {Names(payload) : payload \in ToSet(payloads)}
<1>1. /\ lists = [i \in DOMAIN payloads |-> lists[i]]
      /\ \A i \in DOMAIN payloads : lists[i] = NormalizeA2uiPayload(payloads[i])
  OBVIOUS
<1>2. NormalizeAll(payloads) = all
  BY DEF NormalizeAll
<1> HIDE DEF lists
<1>3. IsList(lists) /\ DOMAIN lists = DOMAIN payloads
  BY <1>1, MadeList
<1>4. \A i \in DOMAIN lists : /\ IsList(lists[i]) /\ WellMade(ToSet(lists[i]))
                             /\ SurfaceIds(lists[i]) \subseteq N
  <2> TAKE i \in DOMAIN lists
  <2>1. payloads[i] \in ToSet(payloads)
    BY <1>3 DEF ToSet
  <2> QED
    BY <1>1, <1>3, <2>1, PayloadFacts
<1>5. IsList(all) /\ ToSet(all) = UNION {ToSet(lists[i]) : i \in DOMAIN lists}
  BY <1>3, <1>4, FlattenLists
<1> HIDE DEF all, N
<1>6. \A m \in ToSet(all) : \E i \in DOMAIN lists : m \in ToSet(lists[i]) /\ ToSet(lists[i]) \subseteq ToSet(all)
  BY <1>5
<1>7. WellMade(ToSet(all))
  <2>1. ASSUME NEW m \in ToSet(all)
        PROVE  /\ Normal(m)
               /\ \E c \in ToSet(all) : c.kind = "createSurface" /\ c.surfaceId = m.surfaceId
               /\ \E u \in ToSet(all) : u.kind = "updateComponents" /\ u.surfaceId = m.surfaceId
    <3>1. PICK i \in DOMAIN lists : m \in ToSet(lists[i]) /\ ToSet(lists[i]) \subseteq ToSet(all)
      BY <1>6
    <3>2. WellMade(ToSet(lists[i]))
      BY <1>4
    <3> QED
      BY <3>1, <3>2 DEF WellMade
  <2> QED
    BY <2>1 DEF WellMade
<1>8. SurfaceIds(all) \subseteq N
  BY <1>4, <1>6 DEF SurfaceIds
<1> QED
  BY <1>2, <1>5, <1>7, <1>8 DEF N
----------------------------------------------------------------------------
(***************************************************************************)
(* What the frames of a payload hold.                                      *)
(***************************************************************************)
LEMMA CandidatesFacts ==
  ASSUME NEW payload
  PROVE  /\ IsList(GetPayloadCandidates(payload))
         /\ ToSet(GetPayloadCandidates(payload)) \subseteq DOMAIN payload
<1>1. \A a, b, c, d, e, f, g : IsList(<<a, b, c, d, e, f, g>>)
  <2> TAKE a, b, c, d, e, f, g
  <2>1. <<a, b, c, d, e, f, g>> \in Seq({a, b, c, d, e, f, g})
    OBVIOUS
  <2> QED
    BY <2>1, SomeList
<1> QED
  BY <1>1, OnlyLists DEF GetPayloadCandidates

LEMMA PartsFacts ==
  ASSUME NEW payload, \A place \in DOMAIN payload : payload[place] \in Objects
  PROVE  /\ IsList(GetParts(payload))
         /\ \A part \in ToSet(GetParts(payload)) :
              part \in Parts /\ \E place \in DOMAIN payload : part \in ToSet(payload[place].parts)
<1> DEFINE places == GetPayloadCandidates(payload)
           lists == [i \in DOMAIN places |-> payload[places[i]].parts]
<1>1. IsList(places) /\ ToSet(places) \subseteq DOMAIN payload
  BY CandidatesFacts
<1>2. /\ lists = [i \in DOMAIN places |-> lists[i]]
      /\ \A i \in DOMAIN places : lists[i] = payload[places[i]].parts
  OBVIOUS
<1>3. GetParts(payload) = FlattenSeq(lists)
  BY DEF GetParts
<1> HIDE DEF places, lists
<1>4. IsList(lists) /\ DOMAIN lists = DOMAIN places
  BY <1>1, <1>2, MadeList
<1>5. \A i \in DOMAIN lists : places[i] \in DOMAIN payload /\ lists[i] \in Seq(Parts)
  <2>1. \A i \in DOMAIN places : places[i] \in DOMAIN payload
    BY <1>1 DEF ToSet
  <2> QED
    BY <1>2, <1>4, <2>1 DEF Objects
<1>6. \A i \in DOMAIN lists : IsList(lists[i]) /\ ToSet(lists[i]) \subseteq Parts
  BY <1>5, SomeList
<1>7. IsList(FlattenSeq(lists)) /\ ToSet(FlattenSeq(lists)) = UNION {ToSet(lists[i]) : i \in DOMAIN lists}
  BY <1>4, <1>6, FlattenLists
<1> HIDE DEF Parts
<1>8. \A part \in ToSet(FlattenSeq(lists)) :
        part \in Parts /\ \E place \in DOMAIN payload : part \in ToSet(payload[place].parts)
  BY <1>2, <1>4, <1>5, <1>6, <1>7
<1> QED
  BY <1>3, <1>7, <1>8

\* The texts of a payload's parts.
LEMMA TextsList ==
  ASSUME NEW payload, \A place \in DOMAIN payload : payload[place] \in Objects
  PROVE  /\ IsList(ExtractTextParts(payload))
         /\ \A text \in ToSet(ExtractTextParts(payload)) : text \in Seq(STRING)
<1> DEFINE parts == GetParts(payload)
           First(i) == \A j \in 1..(i - 1) : parts[j].text # parts[i].text
           lists == [i \in DOMAIN parts |->
                      IF parts[i].text # << >> /\ First(i) THEN <<parts[i].text>> ELSE << >>]
<1>1. IsList(parts) /\ \A part \in ToSet(parts) : part \in Parts
  BY PartsFacts
<1>2. ExtractTextParts(payload) = FlattenSeq(lists)
  BY DEF ExtractTextParts
<1> HIDE DEF parts, First
<1>3. /\ lists = [i \in DOMAIN parts |-> lists[i]]
      /\ \A i \in DOMAIN parts : lists[i] = <<parts[i].text>> \/ lists[i] = << >>
  OBVIOUS
<1> HIDE DEF lists
<1>4. IsList(lists) /\ DOMAIN lists = DOMAIN parts
  BY <1>1, <1>3, MadeList
<1>5. \A i \in DOMAIN parts : parts[i].text \in Seq(STRING)
  BY <1>1 DEF ToSet, Parts
<1>6. \A i \in DOMAIN lists : IsList(lists[i]) /\ \A text \in ToSet(lists[i]) : text \in Seq(STRING)
  <2> TAKE i \in DOMAIN lists
  <2>1. i \in DOMAIN parts /\ parts[i].text \in Seq(STRING)
    BY <1>4, <1>5
  <2>2. CASE lists[i] = <<parts[i].text>>
    <3>1. IsList(lists[i]) /\ ToSet(lists[i]) = {parts[i].text}
      BY <2>2, SmallLists
    <3> QED
      BY <2>1, <3>1
  <2>3. CASE lists[i] = << >>
    <3>1. IsList(lists[i]) /\ ToSet(lists[i]) = {}
      BY <2>3, SmallLists
    <3> QED
      BY <3>1
  <2> QED
    BY <1>3, <2>1, <2>2, <2>3
<1>7. /\ IsList(FlattenSeq(lists))
      /\ ToSet(FlattenSeq(lists)) = UNION {ToSet(lists[i]) : i \in DOMAIN lists}
  BY <1>4, <1>6, FlattenLists
<1> QED
  BY <1>2, <1>6, <1>7

LEMMA A2uiPayloadsFacts ==
  ASSUME NEW list \in Seq(A2uiPayloads)
  PROVE  IsList(list) /\ \A payload \in ToSet(list) : payload \in A2uiPayloads /\ IsList(payload.items)
<1>1. IsList(list) /\ ToSet(list) \subseteq A2uiPayloads
  BY SomeList
<1>2. \A payload \in A2uiPayloads : payload.items \in Seq(Items)
  BY DEF A2uiPayloads
<1> QED
  BY <1>1, <1>2, SomeList

\* What is taken of each part, put together.
LEMMA FromParts ==
  ASSUME NEW parts, IsList(parts), NEW lists, lists = [i \in DOMAIN parts |-> lists[i]],
         \A i \in DOMAIN parts : lists[i] \in Seq(A2uiPayloads)
  PROVE  LET messages == NormalizeAll(FlattenSeq(lists))
         IN  /\ IsList(messages)
             /\ WellMade(ToSet(messages))
             /\ SurfaceIds(messages) \subseteq
                  UNION {Names(payload) : payload \in UNION {ToSet(lists[i]) : i \in DOMAIN parts}}
<1>1. IsList(lists) /\ DOMAIN lists = DOMAIN parts
  BY MadeList
<1>2. \A i \in DOMAIN lists : IsList(lists[i]) /\ \A payload \in ToSet(lists[i]) : IsList(payload.items)
  BY <1>1, A2uiPayloadsFacts
<1>3. /\ IsList(FlattenSeq(lists))
      /\ ToSet(FlattenSeq(lists)) = UNION {ToSet(lists[i]) : i \in DOMAIN parts}
  BY <1>1, <1>2, FlattenLists
<1>4. \A payload \in ToSet(FlattenSeq(lists)) : IsList(payload.items)
  BY <1>1, <1>2, <1>3
<1> DEFINE flat == FlattenSeq(lists)
<1> HIDE DEF flat
<1>5. ToSet(flat) = UNION {ToSet(lists[i]) : i \in DOMAIN parts}
  BY <1>3 DEF flat
<1> QED
  BY <1>3, <1>4, <1>5, NormalizeAllFacts DEF flat

LEMMA NegotiatedFacts ==
  ASSUME NEW payload, \A place \in DOMAIN payload : payload[place] \in Objects
  PROVE  LET messages == ExtractNegotiatedA2uiEnvelopes(payload)
         IN  /\ IsList(messages)
             /\ WellMade(ToSet(messages))
             /\ SurfaceIds(messages) \subseteq NamedByParts(payload)
<1> DEFINE parts == GetParts(payload)
           lists == [i \in DOMAIN parts |-> parts[i].typed]
           messages == NormalizeAll(FlattenSeq(lists))
           N == UNION {Names(typed) : typed \in UNION {ToSet(lists[i]) : i \in DOMAIN parts}}
<1>1. IsList(parts) /\ \A part \in ToSet(parts) :
        part \in Parts /\ \E place \in DOMAIN payload : part \in ToSet(payload[place].parts)
  BY PartsFacts
<1>2. /\ lists = [i \in DOMAIN parts |-> lists[i]]
      /\ \A i \in DOMAIN parts : lists[i] = parts[i].typed
  OBVIOUS
<1>3. ExtractNegotiatedA2uiEnvelopes(payload) = messages
  BY DEF ExtractNegotiatedA2uiEnvelopes
<1> HIDE DEF parts, lists
<1>4. \A i \in DOMAIN parts : parts[i] \in ToSet(parts)
  BY DEF ToSet
<1>5. \A i \in DOMAIN parts : lists[i] \in Seq(A2uiPayloads)
  BY <1>1, <1>2, <1>4 DEF Parts
<1>6. IsList(messages) /\ WellMade(ToSet(messages)) /\ SurfaceIds(messages) \subseteq N
  BY <1>1, <1>2, <1>5, FromParts
<1>7. N \subseteq NamedByParts(payload)
  <2>1. ASSUME NEW i \in DOMAIN parts, NEW typed \in ToSet(lists[i]), NEW item \in ToSet(typed.items)
        PROVE  SurfaceOf(item) \in NamedByParts(payload)
    <3>1. PICK place \in DOMAIN payload : parts[i] \in ToSet(payload[place].parts)
      BY <1>1, <1>4
    <3>2. typed \in ToSet(parts[i].typed)
      BY <1>2
    <3>3. item \in UNION {ToSet(t.items) : t \in UNION {ToSet(part.typed) : part \in
                     UNION {ToSet(payload[p].parts) : p \in DOMAIN payload}}}
      BY <3>1, <3>2
    <3> QED
      BY <3>3 DEF NamedByParts, SurfaceOf
  <2> QED
    BY <2>1 DEF Names
<1> HIDE DEF messages, N
<1> QED
  BY <1>3, <1>6, <1>7

LEMMA EnvelopesFacts ==
  ASSUME NEW payload, \A place \in DOMAIN payload : payload[place] \in Objects
  PROVE  LET messages == ExtractA2uiEnvelopes(payload)
         IN  IsList(messages) /\ WellMade(ToSet(messages))
<1> DEFINE parts == GetParts(payload)
           places == GetPayloadCandidates(payload)
           lists == [i \in DOMAIN parts |-> IF parts[i].typed # << >> THEN parts[i].typed ELSE parts[i].fenced]
           themselves == [i \in DOMAIN places |-> payload[places[i]].itself]
<1>1. IsList(parts) /\ \A part \in ToSet(parts) : part \in Parts
  BY PartsFacts
<1>2. IsList(places) /\ ToSet(places) \subseteq DOMAIN payload
  BY CandidatesFacts
<1>3. /\ lists = [i \in DOMAIN parts |-> lists[i]]
      /\ \A i \in DOMAIN parts : lists[i] \in {parts[i].typed, parts[i].fenced}
  OBVIOUS
<1>4. /\ themselves = [i \in DOMAIN places |-> themselves[i]]
      /\ \A i \in DOMAIN places : themselves[i] = payload[places[i]].itself
  OBVIOUS
<1>5. ExtractA2uiEnvelopes(payload) \in {NormalizeAll(FlattenSeq(lists)), NormalizeAll(themselves)}
  BY DEF ExtractA2uiEnvelopes
<1> HIDE DEF parts, places, lists, themselves
<1>6. IsList(NormalizeAll(FlattenSeq(lists))) /\ WellMade(ToSet(NormalizeAll(FlattenSeq(lists))))
  <2>1. \A i \in DOMAIN parts : lists[i] \in Seq(A2uiPayloads)
    <3>1. \A i \in DOMAIN parts : parts[i] \in Parts
      BY <1>1 DEF ToSet
    <3> QED
      BY <1>3, <3>1 DEF Parts
  <2> QED
    BY <1>1, <1>3, <2>1, FromParts
<1>7. IsList(NormalizeAll(themselves)) /\ WellMade(ToSet(NormalizeAll(themselves)))
  <2>1. IsList(themselves) /\ ToSet(themselves) = {themselves[i] : i \in DOMAIN places}
    BY <1>2, <1>4, MadeList
  <2>2. \A i \in DOMAIN places : places[i] \in DOMAIN payload
    BY <1>2 DEF ToSet
  <2>3. \A i \in DOMAIN places : themselves[i].items \in Seq(Items)
    BY <1>4, <2>2 DEF Objects, A2uiPayloads
  <2>4. \A p \in ToSet(themselves) : IsList(p.items)
    BY <2>1, <2>3, SomeList
  <2> QED
    BY <2>1, <2>4, NormalizeAllFacts
<1> QED
  BY <1>5, <1>6, <1>7

\* The frames of a payload: those with A2UI messages hold well-made ones, and only if they are
\* enabled; outside of compatibility mode they name what the typed Parts name.
LEMMA FramesFacts ==
  ASSUME NEW payload, \A place \in DOMAIN payload : payload[place] \in Objects,
         NEW enabled \in BOOLEAN, NEW compatibility \in BOOLEAN
  PROVE  LET frames == ProcessProtocolPayload(payload, enabled, compatibility)
         IN  /\ IsList(frames)
             /\ \A frame \in ToSet(frames) : frame.kind = "a2ui" =>
                  /\ enabled
                  /\ IsList(frame.value)
                  /\ WellMade(ToSet(frame.value))
                  /\ ~compatibility => SurfaceIds(frame.value) \subseteq NamedByParts(payload)
             /\ \A frame \in ToSet(frames) : frame.kind = "text" => frame.value \in Seq(STRING)
<1> DEFINE status == ExtractA2aStatus(payload)
           texts == ExtractTextParts(payload)
           messages == Envelopes(payload, compatibility)
           first == Frame("meta", ExtractA2aMeta(payload))
           second == IF status # "" THEN Frame("status", status) ELSE << >>
           third == [i \in DOMAIN texts |-> [kind |-> "text", value |-> texts[i]]]
           fourth == IF enabled /\ messages # << >> THEN Frame("a2ui", messages) ELSE << >>
           Fine(frame) ==
             /\ frame.kind = "a2ui" =>
                  /\ enabled
                  /\ IsList(frame.value)
                  /\ WellMade(ToSet(frame.value))
                  /\ ~compatibility => SurfaceIds(frame.value) \subseteq NamedByParts(payload)
             /\ frame.kind = "text" => frame.value \in Seq(STRING)
<1>1. ProcessProtocolPayload(payload, enabled, compatibility) = ((first \o second) \o third) \o fourth
  BY DEF ProcessProtocolPayload
<1>2. IsList(messages) /\ WellMade(ToSet(messages))
        /\ (~compatibility => SurfaceIds(messages) \subseteq NamedByParts(payload))
  BY EnvelopesFacts, NegotiatedFacts DEF Envelopes
<1> HIDE DEF status, texts, messages, Fine
<1>3. \A kind, value : IsList(Frame(kind, value)) /\ ToSet(Frame(kind, value)) = {[kind |-> kind, value |-> value]}
  BY SmallLists DEF Frame
<1>4. \A value : Fine([kind |-> "meta", value |-> value]) /\ Fine([kind |-> "status", value |-> value])
  BY DEF Fine
<1>12. \A value \in Seq(STRING) : Fine([kind |-> "text", value |-> value])
  BY DEF Fine
<1>5. IsList(first) /\ \A f \in ToSet(first) : Fine(f)
  <2> DEFINE frame == [kind |-> "meta", value |-> ExtractA2aMeta(payload)]
  <2>1. IsList(first) /\ ToSet(first) = {frame}
    BY <1>3
  <2>2. Fine(frame)
    BY <1>4
  <2> HIDE DEF first, frame
  <2> QED
    BY <2>1, <2>2
<1>6. IsList(second) /\ \A f \in ToSet(second) : Fine(f)
  <2> DEFINE frame == [kind |-> "status", value |-> status]
  <2>1. IsList(second) /\ (ToSet(second) = {frame} \/ ToSet(second) = {})
    <3>1. second = Frame("status", status) \/ second = << >>
      OBVIOUS
    <3> HIDE DEF second
    <3>2. IsList(Frame("status", status)) /\ ToSet(Frame("status", status)) = {frame}
      BY <1>3
    <3>3. IsList(<< >>) /\ ToSet(<< >>) = {}
      BY SmallLists
    <3> HIDE DEF frame
    <3> QED
      BY <3>1, <3>2, <3>3
  <2>2. Fine(frame)
    BY <1>4
  <2> HIDE DEF second, frame
  <2> QED
    BY <2>1, <2>2
<1>7. IsList(third) /\ \A f \in ToSet(third) : Fine(f)
  <2>1. IsList(texts) /\ \A i \in DOMAIN texts : texts[i] \in Seq(STRING)
    BY TextsList DEF texts, ToSet
  <2>2. /\ third = [i \in DOMAIN texts |-> third[i]]
        /\ \A i \in DOMAIN texts : third[i] = [kind |-> "text", value |-> texts[i]]
    OBVIOUS
  <2> HIDE DEF third
  <2>3. IsList(third) /\ ToSet(third) = {third[i] : i \in DOMAIN texts}
    BY <2>1, <2>2, MadeList
  <2> QED
    BY <1>12, <2>1, <2>2, <2>3
<1>8. IsList(fourth) /\ \A f \in ToSet(fourth) : Fine(f)
  <2>1. CASE enabled /\ messages # << >>
    <3>1. fourth = Frame("a2ui", messages)
      BY <2>1
    <3>2. \A value : [kind |-> "a2ui", value |-> value].value = value
      OBVIOUS
    <3>3. Fine([kind |-> "a2ui", value |-> messages])
      BY <1>2, <2>1, <3>2 DEF Fine
    <3> HIDE DEF fourth
    <3> QED
      BY <1>3, <3>1, <3>3
  <2>2. CASE ~(enabled /\ messages # << >>)
    BY <2>2, SmallLists
  <2> QED
    BY <2>1, <2>2
<1> HIDE DEF first, second, third, fourth
<1>9. IsList(first \o second) /\ \A f \in ToSet(first \o second) : Fine(f)
  BY <1>5, <1>6, ConcatLists
<1>10. IsList((first \o second) \o third) /\ \A f \in ToSet((first \o second) \o third) : Fine(f)
  BY <1>7, <1>9, ConcatLists
<1>11. /\ IsList(((first \o second) \o third) \o fourth)
       /\ \A f \in ToSet(((first \o second) \o third) \o fourth) : Fine(f)
  BY <1>8, <1>10, ConcatLists
<1> QED
  BY <1>1, <1>11 DEF Fine
----------------------------------------------------------------------------
(***************************************************************************)
(* What the renderer makes of the messages of a payload.                   *)
(***************************************************************************)
Shaped(state) ==
  /\ state = [model |-> state.model, refused |-> state.refused]
  /\ state.refused \in BOOLEAN

\* The surfaces after a message, of those before it: another one is as it was; the one the
\* message is about belongs to the last run once it is created or updated.
Rendering(before, message, after) ==
  LET id == message.surfaceId
  IN  /\ \A s \in DOMAIN after \ {id} : s \in DOMAIN before /\ after[s] = before[s]
      /\ id \in DOMAIN after =>
           (id \in DOMAIN before /\ after[id] = before[id]) \/ after[id].run = started

\* What besides is so where the renderer does not refuse the message.
Accepting(before, message, after) ==
  LET id == message.surfaceId
  IN  /\ message.kind = "deleteSurface" => id \notin DOMAIN after
      /\ message.kind = "createSurface" => id \notin DOMAIN before
      /\ message.kind = "updateComponents" =>
           id \in DOMAIN before /\ message.components \subseteq after[id].components
      /\ message.kind = "updateDataModel" => after = before

Renders(state, message, after) ==
  /\ Shaped(after)
  /\ Rendering(state.model, message, after.model)
  /\ ~after.refused => ~state.refused /\ Accepting(state.model, message, after.model)

LEMMA RenderFacts ==
  ASSUME NEW state, Shaped(state), NEW message, message.kind \in Kinds
  PROVE  Renders(state, message, RenderMessage(state, message))
<1> DEFINE id == message.surfaceId
           before == state.model
           with(components) == [s \in DOMAIN before \cup {id} |->
             IF s = id THEN [run |-> started, components |-> components] ELSE before[s]]
           without == [s \in DOMAIN before \ {id} |-> before[s]]
           after == RenderMessage(state, message)
           Having(m) == [state EXCEPT !.model = m]
           Refusing(r) == [state EXCEPT !.refused = r]
<1>1. /\ \A components :
           LET w == with(components)
           IN  /\ DOMAIN w = DOMAIN before \cup {id}
               /\ w[id].run = started /\ w[id].components = components
               /\ \A s \in DOMAIN before \ {id} : w[s] = before[s]
      /\ DOMAIN without = DOMAIN before \ {id}
      /\ \A s \in DOMAIN before \ {id} : without[s] = before[s]
  OBVIOUS
<1>2. state.refused \in BOOLEAN
  BY DEF Shaped
<1>3. \A m, r : LET s == [model |-> m, refused |-> r]
                IN  s.model = m /\ s.refused = r /\ (r \in BOOLEAN => Shaped(s))
  BY DEF Shaped
<1>4. /\ \A m : Having(m) = [model |-> m, refused |-> state.refused]
      /\ \A r : Refusing(r) = [model |-> before, refused |-> r]
  BY DEF Shaped
<1> HIDE DEF Having, Refusing
<1>5. /\ \A m : Having(m).model = m /\ Having(m).refused = state.refused /\ Shaped(Having(m))
      /\ \A r \in BOOLEAN : Refusing(r).model = before /\ Refusing(r).refused = r /\ Shaped(Refusing(r))
  BY <1>2, <1>3, <1>4
<1>6. CASE state.refused
  <2>1. after = state
    BY <1>6 DEF RenderMessage
  <2> HIDE DEF after
  <2> QED
    BY <1>6, <2>1 DEF Renders, Rendering, after
<1>7. CASE ~state.refused /\ message.kind = "deleteSurface"
  <2>1. after = Having(without)
    BY <1>7 DEF RenderMessage, Having
  <2> HIDE DEF after, without
  <2>2. after.model = without /\ Shaped(after)
    BY <1>5, <2>1
  <2>3. Renders(state, message, after)
    BY <1>1, <1>7, <2>2 DEF Renders, Rendering, Accepting
  <2> QED
    BY <2>3 DEF after
<1>8. CASE ~state.refused /\ message.kind = "createSurface"
  <2>1. CASE id \in DOMAIN before
    <3>1. after = Refusing(TRUE)
      BY <1>8, <2>1 DEF RenderMessage, Refusing
    <3> HIDE DEF after
    <3>2. after.model = before /\ after.refused = TRUE /\ Shaped(after)
      BY <1>5, <3>1
    <3>3. Renders(state, message, after)
      BY <3>2 DEF Renders, Rendering
    <3> QED
      BY <3>3 DEF after
  <2>2. CASE id \notin DOMAIN before
    <3> DEFINE w == with({})
    <3>1. DOMAIN w = DOMAIN before \cup {id} /\ w[id].run = started
          /\ \A s \in DOMAIN before \ {id} : w[s] = before[s]
      BY <1>1
    <3>2. after = Having(w)
      BY <1>8, <2>2 DEF RenderMessage, Having
    <3> HIDE DEF w, after
    <3>3. after.model = w /\ Shaped(after)
      BY <1>5, <3>2
    <3>4. Renders(state, message, after)
      BY <1>8, <2>2, <3>1, <3>3 DEF Renders, Rendering, Accepting
    <3> QED
      BY <3>4 DEF after
  <2> QED
    BY <2>1, <2>2
<1>9. CASE ~state.refused /\ message.kind = "updateComponents"
  <2>1. CASE id \notin DOMAIN before
    <3>1. after = Refusing(TRUE)
      BY <1>9, <2>1 DEF RenderMessage, Refusing
    <3> HIDE DEF after
    <3>2. after.model = before /\ after.refused = TRUE /\ Shaped(after)
      BY <1>5, <3>1
    <3>3. Renders(state, message, after)
      BY <3>2 DEF Renders, Rendering
    <3> QED
      BY <3>3 DEF after
  <2>2. CASE id \in DOMAIN before
    <3> DEFINE all == before[id].components \cup message.components
               w == with(all)
    <3>1. DOMAIN w = DOMAIN before \cup {id} /\ w[id].run = started /\ w[id].components = all
          /\ \A s \in DOMAIN before \ {id} : w[s] = before[s]
      BY <1>1
    <3>2. after = Having(w)
      BY <1>9, <2>2 DEF RenderMessage, Having
    <3> HIDE DEF w, after
    <3>3. after.model = w /\ Shaped(after)
      BY <1>5, <3>2
    <3>4. Renders(state, message, after)
      BY <1>9, <2>2, <3>1, <3>3 DEF Renders, Rendering, Accepting
    <3> QED
      BY <3>4 DEF after
  <2> QED
    BY <2>1, <2>2
<1>10. CASE ~state.refused /\ message.kind = "updateDataModel"
  <2>1. after = Refusing(id \notin DOMAIN before)
    BY <1>10 DEF RenderMessage, Refusing
  <2> HIDE DEF after
  <2>2. after.model = before /\ Shaped(after)
    BY <1>5, <2>1
  <2>3. Renders(state, message, after)
    BY <1>10, <2>2 DEF Renders, Rendering, Accepting
  <2> QED
    BY <2>3 DEF after
<1> QED
  BY <1>2, <1>6, <1>7, <1>8, <1>9, <1>10 DEF Kinds

IsProcessing(f, base, messages) ==
  /\ f[0] = base
  /\ \A n \in 1..Len(messages) : f[n] = RenderMessage(f[n - 1], messages[n])

LEMMA Processing ==
  ASSUME NEW base, NEW messages, Len(messages) \in Nat
  PROVE  \E f : IsProcessing(f, base, messages) /\ Processed(base, messages) = f[Len(messages)]
<1> DEFINE N == Len(messages)
           Turn(state, n) == RenderMessage(state, messages[n])
           Solves(g, k) == g = [n \in 0..k |-> IF n = 0 THEN base ELSE Turn(g[n - 1], n)]
           S == {k \in 0..N : \E g : Solves(g, k)}
           f == CHOOSE g : Solves(g, N)
<1>1. Processed(base, messages) = f[N]
  BY DEF Processed
<1>2. N \in Nat
  OBVIOUS
<1> HIDE DEF N, Turn, f
<1>3. 0 \in S
  <2>1. Solves([n \in 0..0 |-> base], 0)
    OBVIOUS
  <2> HIDE DEF Solves
  <2> QED
    BY <1>2, <2>1
<1>4. \A k \in 1..N : k - 1 \in S => k \in S
  <2> TAKE k \in 1..N
  <2>1. HAVE k - 1 \in S
  <2>2. PICK g : Solves(g, k - 1)
    BY <2>1
  <2> DEFINE h == [n \in 0..k |-> IF n < k THEN g[n] ELSE Turn(g[k - 1], k)]
  <2>3. /\ \A n \in 0..k : n # 0 /\ n < k => n \in 0..(k - 1) /\ n - 1 \in 0..k /\ n - 1 < k
        /\ \A n \in 0..k : ~(n < k) => n = k
        /\ k \in Nat /\ k # 0 /\ k - 1 \in 0..k /\ k - 1 < k /\ 0 \in 0..(k - 1) /\ 0 < k
    BY <1>2
  <2>4. \A n \in 0..(k - 1) : g[n] = IF n = 0 THEN base ELSE Turn(g[n - 1], n)
    BY <2>2
  <2>5. \A n \in 0..k : h[n] = IF n = 0 THEN base ELSE Turn(h[n - 1], n)
    <3> TAKE n \in 0..k
    <3>1. CASE n = 0
      BY <2>3, <2>4, <3>1
    <3>2. CASE n # 0 /\ n < k
      <4>1. h[n] = g[n] /\ h[n - 1] = g[n - 1]
        BY <2>3, <3>2
      <4> QED
        BY <2>3, <2>4, <3>2, <4>1
    <3>3. CASE n = k
      <4>1. h[n] = Turn(g[k - 1], k) /\ h[n - 1] = g[k - 1]
        BY <2>3, <3>3
      <4> QED
        BY <2>3, <3>3, <4>1
    <3> QED
      BY <2>3, <3>1, <3>2, <3>3
  <2>6. Solves(h, k)
    <3> HIDE DEF h
    <3>1. h = [n \in 0..k |-> h[n]]
      BY DEF h
    <3> QED
      BY <2>5, <3>1
  <2> HIDE DEF h, Solves
  <2> QED
    BY <1>2, <2>6
<1>5. N \in S
  <2>1. 0..N \subseteq S
    <3> HIDE DEF S
    <3> QED
      BY <1>2, <1>3, <1>4, InductUpTo
  <2> QED
    BY <1>2, <2>1
<1>6. Solves(f, N)
  <2>1. \E g : Solves(g, N)
    BY <1>5
  <2> HIDE DEF Solves
  <2> QED
    BY <2>1 DEF f
<1>7. f[0] = base /\ \A n \in 1..N : f[n] = Turn(f[n - 1], n)
  <2>1. \A n \in 0..N : f[n] = IF n = 0 THEN base ELSE Turn(f[n - 1], n)
    BY <1>6
  <2>2. 0 \in 0..N /\ \A n \in 1..N : n \in 0..N /\ n # 0
    BY <1>2
  <2> QED
    BY <2>1, <2>2
<1>8. IsProcessing(f, base, messages)
  BY <1>7 DEF IsProcessing, N, Turn
<1> QED
  BY <1>1, <1>8 DEF N

\* The surfaces that messages make of others: they are as they were, unless messages name them.
Descends(later, earlier, named_) ==
  \A s \in DOMAIN later :
    (s \in DOMAIN earlier /\ later[s] = earlier[s]) \/ (s \in named_ /\ later[s].run = started)

LEMMA ProcessingDescends ==
  ASSUME NEW base, Shaped(base), NEW messages, IsList(messages),
         \A m \in ToSet(messages) : m.kind \in Kinds,
         DOMAIN base.model \cap SurfaceIds(messages) = {},
         NEW f, IsProcessing(f, base, messages)
  PROVE  \A n \in 0..Len(messages) :
           Shaped(f[n]) /\ \A s \in DOMAIN f[n].model :
             \/ s \in DOMAIN base.model /\ f[n].model[s] = base.model[s]
             \/ s \in SurfaceIds(messages) /\ f[n].model[s].run = started
<1> DEFINE N == Len(messages)
           P(n) == Shaped(f[n]) /\ Descends(f[n].model, base.model, SurfaceIds(messages))
           S == {n \in 0..N : P(n)}
<1>1. N \in Nat /\ DOMAIN messages = 1..N
  BY DEF IsList
<1>2. 0 \in S
  BY <1>1 DEF IsProcessing, Descends
<1>3. \A n \in 1..N : n - 1 \in S => n \in S
  <2> TAKE n \in 1..N
  <2>1. HAVE n - 1 \in S
  <2>2. messages[n] \in ToSet(messages) /\ messages[n].surfaceId \in SurfaceIds(messages)
    BY <1>1 DEF ToSet, SurfaceIds
  <2>3. Renders(f[n - 1], messages[n], f[n])
    BY <2>1, <2>2, RenderFacts DEF IsProcessing
  <2>4. Descends(f[n].model, base.model, SurfaceIds(messages))
    BY <2>1, <2>2, <2>3 DEF Descends, Renders, Rendering
  <2> QED
    BY <1>1, <2>3, <2>4 DEF Renders
<1>4. 0..N \subseteq S
  <2> HIDE DEF S
  <2> QED
    BY <1>1, <1>2, <1>3, InductUpTo
<1> QED
  BY <1>4 DEF Descends

\* A surface that is created once gets its root after that, as it is refused otherwise.
LEMMA ProcessingRoots ==
  ASSUME NEW base, Shaped(base), NEW messages, IsList(messages), WellMade(ToSet(messages)),
         DOMAIN base.model \cap SurfaceIds(messages) = {},
         NEW f, IsProcessing(f, base, messages), ~f[Len(messages)].refused,
         NEW s \in SurfaceIds(messages) \cap DOMAIN f[Len(messages)].model,
         s \notin CreatedTwice(messages)
  PROVE  "root" \in f[Len(messages)].model[s].components
<1> DEFINE N == Len(messages)
           Creates(n) == messages[n].kind = "createSurface" /\ messages[n].surfaceId = s
           Updates(n) == messages[n].kind = "updateComponents" /\ messages[n].surfaceId = s
<1>1. N \in Nat /\ DOMAIN messages = 1..N
  BY DEF IsList
<1>2. (\E c \in 1..N : Creates(c)) /\ \E d \in 1..N : Updates(d)
  <2> DEFINE made == ToSet(messages)
  <2>1. PICK item \in made : item.surfaceId = s
    BY DEF SurfaceIds
  <2>2. made = {messages[n] : n \in 1..N}
    BY <1>1 DEF ToSet
  <2>3. /\ \E x \in made : x.kind = "createSurface" /\ x.surfaceId = s
        /\ \E x \in made : x.kind = "updateComponents" /\ x.surfaceId = s
    BY <2>1 DEF WellMade
  <2> HIDE DEF made, N
  <2> QED
    BY <2>2, <2>3
<1>3. PICK c \in 1..N, d \in 1..N : Creates(c) /\ Updates(d)
  BY <1>2
<1>4. \A n \in 1..N : Creates(n) => n = c
  <2> TAKE n \in 1..N
  <2>1. HAVE Creates(n)
  <2>2. ~(n < c) /\ ~(c < n)
    BY <1>1, <1>3, <2>1 DEF CreatedTwice
  <2> QED
    BY <1>1, <2>2
<1>5. \A n \in 1..N : messages[n].kind \in Kinds /\ (Updates(n) => "root" \in messages[n].components)
  BY <1>1 DEF WellMade, Normal, ToSet
<1>6. \A n \in 0..N : Shaped(f[n])
  <2>1. \A m \in ToSet(messages) : m.kind \in Kinds
    BY DEF WellMade, Normal
  <2> QED
    BY <2>1, ProcessingDescends
<1> DEFINE Holding(n) ==
             ~f[n].refused =>
               /\ n < c => s \notin DOMAIN f[n].model
               /\ \A u \in 1..n : Updates(u) => c < u
               /\ s \in DOMAIN f[n].model /\ (\E u \in 1..n : Updates(u))
                    => "root" \in f[n].model[s].components
           S == {n \in 0..N : Holding(n)}
<1>7. 0 \in S
  <2>1. s \notin DOMAIN f[0].model
    BY DEF IsProcessing
  <2> QED
    BY <1>1, <2>1
<1>8. \A n \in 1..N : n - 1 \in S => n \in S
  <2> TAKE n \in 1..N
  <2>1. HAVE n - 1 \in S
  <2> DEFINE m == messages[n]
             before == f[n - 1].model
             after == f[n].model
  <2>2. /\ n \in 0..N /\ n \in 1..n /\ 1..n = 1..(n - 1) \cup {n} /\ n - 1 \in 0..N
        /\ n < c => n - 1 < c
        /\ n # c /\ ~(n - 1 < c) => c < n /\ ~(n < c)
        /\ n = c => ~(n < c) /\ \A u \in 1..(n - 1) : ~(c < u)
    BY <1>1, <1>3
  <2>3. Renders(f[n - 1], m, f[n])
    <3>1. Shaped(f[n - 1]) /\ m.kind \in Kinds /\ f[n] = RenderMessage(f[n - 1], m)
      BY <1>5, <1>6, <2>2 DEF IsProcessing
    <3> QED
      BY <3>1, RenderFacts
  <2>4. SUFFICES ASSUME ~f[n].refused
                 PROVE  /\ n < c => s \notin DOMAIN after
                        /\ \A u \in 1..n : Updates(u) => c < u
                        /\ s \in DOMAIN after /\ (\E u \in 1..n : Updates(u))
                             => "root" \in after[s].components
    BY <2>2
  <2>5. /\ n - 1 < c => s \notin DOMAIN before
        /\ \A u \in 1..(n - 1) : Updates(u) => c < u
        /\ s \in DOMAIN before /\ (\E u \in 1..(n - 1) : Updates(u)) => "root" \in before[s].components
    BY <2>1, <2>3, <2>4 DEF Renders
  <2>6. Rendering(before, m, after) /\ Accepting(before, m, after)
    BY <2>3, <2>4 DEF Renders
  <2> HIDE DEF S, before, after
  <2>7. CASE m.surfaceId # s \/ m.kind = "updateDataModel"
    <3>1. s \in DOMAIN after => s \in DOMAIN before /\ after[s] = before[s]
      BY <2>6, <2>7 DEF Rendering, Accepting
    <3>2. ~Updates(n)
      BY <2>7
    <3> QED
      BY <2>2, <2>5, <3>1, <3>2
  <2>8. CASE m.surfaceId = s /\ m.kind = "deleteSurface"
    <3>1. s \notin DOMAIN after
      BY <2>6, <2>8 DEF Accepting
    <3>2. ~Updates(n)
      BY <2>8
    <3> QED
      BY <2>2, <2>5, <3>1, <3>2
  <2>9. CASE m.surfaceId = s /\ m.kind = "createSurface"
    <3>1. n = c /\ ~Updates(n)
      BY <1>4, <2>9
    <3>2. \A u \in 1..n : ~Updates(u)
      BY <2>2, <2>5, <3>1
    <3> QED
      BY <2>2, <3>1, <3>2
  <2>10. CASE m.surfaceId = s /\ m.kind = "updateComponents"
    <3>1. s \in DOMAIN before /\ m.components \subseteq after[s].components
      BY <2>6, <2>10 DEF Accepting
    <3>2. "root" \in after[s].components
      BY <1>5, <2>10, <3>1
    <3>3. n # c
      BY <1>3, <2>10
    <3>4. c < n /\ ~(n < c)
      BY <2>2, <2>5, <3>1, <3>3
    <3> QED
      BY <2>2, <2>5, <3>2, <3>4
  <2> QED
    BY <1>5, <2>7, <2>8, <2>9, <2>10 DEF Kinds
<1>9. 0..N \subseteq S
  <2> HIDE DEF S
  <2> QED
    BY <1>1, <1>7, <1>8, InductUpTo
<1>10. Holding(N)
  BY <1>1, <1>9
<1> QED
  BY <1>1, <1>3, <1>10
----------------------------------------------------------------------------
(***************************************************************************)
(* The invariant of the surfaces, in the model and on the page: each comes *)
(* from a run that may show it, and has its root unless the renderer has   *)
(* refused messages.                                                       *)
(***************************************************************************)
\* Given the history of the runs, run r may show surface s.
Allowed(r, s, origins, names) ==
  origins[r].mode = "strict" => origins[r].negotiated /\ s \in names[r]

\* All of the surfaces come from a run up to the last one, which may show them.
Earned(list, last, origins, names) ==
  \A s \in DOMAIN list : list[s].run \in 1..last /\ Allowed(list[s].run, s, origins, names)

Rooted(list, exempt) == \A s \in DOMAIN list \ exempt : "root" \in list[s].components

\* The messages of the last run may be processed.
Proper(messages, last, origins, names) ==
  /\ IsList(messages)
  /\ WellMade(ToSet(messages))
  /\ \A s \in SurfaceIds(messages) : Allowed(last, s, origins, names)

Underway(frames, last, origins, names) ==
  /\ IsList(frames)
  /\ \A frame \in ToSet(frames) : frame.kind = "a2ui" => Proper(frame.value, last, origins, names)

SurfacesInv ==
  /\ DOMAIN origin = Runs /\ DOMAIN named = Runs
  /\ Underway(wire, started, origin, named)
  /\ Earned(model, started, origin, named) /\ Earned(surfaces, started, origin, named)
  /\ ~refused => Rooted(model, remade) /\ Rooted(surfaces, remade)

LEMMA NothingShown ==
  /\ \A last, origins, names : Earned(NoSurfaces, last, origins, names)
  /\ \A exempt : Rooted(NoSurfaces, exempt)
  /\ \A last, origins, names : Underway(<< >>, last, origins, names)
<1>1. DOMAIN NoSurfaces = {}
  BY DEF NoSurfaces
<1> QED
  BY <1>1, SmallLists DEF Earned, Rooted, Underway

LEMMA TailOfList ==
  ASSUME NEW list, IsList(list), list # << >>
  PROVE  IsList(Tail(list)) /\ ToSet(Tail(list)) \subseteq ToSet(list) /\ Head(list) \in ToSet(list)
<1> DEFINE X == {list[i] : i \in DOMAIN list}
<1>1. list \in Seq(X) /\ ToSet(list) = X
  BY DEF IsList, ToSet
<1> HIDE DEF X
<1>2. Tail(list) \in Seq(X) /\ Head(list) \in X
  BY <1>1
<1> QED
  BY <1>1, <1>2, SomeList

LEMMA InitSurfaces ==
  ASSUME Init
  PROVE  SurfacesInv
<1>1. /\ wire = << >> /\ model = NoSurfaces /\ surfaces = NoSurfaces
      /\ origin = [r \in Runs |-> [mode |-> mode, negotiated |-> FALSE]]
      /\ named = [r \in Runs |-> {}]
  BY DEF Init
<1>2. DOMAIN origin = Runs /\ DOMAIN named = Runs
  BY <1>1
<1> QED
  BY <1>1, <1>2, NothingShown DEF SurfacesInv

\* What was earned stays so as runs are started and surfaces named.
LEMMA EarnedLater ==
  ASSUME NEW list, NEW last \in Nat, NEW later \in {last, last + 1},
         NEW origins, NEW names, NEW origins2, NEW names2,
         Earned(list, last, origins, names),
         \A r \in 1..last : origins2[r] = origins[r] /\ names[r] \subseteq names2[r]
  PROVE  Earned(list, later, origins2, names2)
<1>1. \A r \in 1..last : r \in 1..later
  OBVIOUS
<1> QED
  BY <1>1 DEF Earned, Allowed

\* A step by which no surface appears, and at most disappears.
LEMMA SurfacesStay ==
  ASSUME IInv, SurfacesInv, UNCHANGED <<started, origin, named, remade>>,
         wire' = wire \/ wire' = << >>,
         model' = model \/ model' = NoSurfaces,
         surfaces' = surfaces \/ surfaces' = NoSurfaces,
         refused' = refused \/ (model' = NoSurfaces /\ surfaces' = NoSurfaces)
  PROVE  SurfacesInv'
<1>1. Underway(wire, started, origin, named)'
  BY NothingShown DEF SurfacesInv
<1>2. Earned(model, started, origin, named)' /\ Earned(surfaces, started, origin, named)'
  BY NothingShown DEF SurfacesInv
<1>3. (~refused => Rooted(model, remade) /\ Rooted(surfaces, remade))'
  BY NothingShown DEF SurfacesInv
<1> QED
  BY <1>1, <1>2, <1>3 DEF SurfacesInv

LEMMA RunSurfaces ==
  ASSUME PageAssumption, IInv, SurfacesInv, Run
  PROVE  SurfacesInv'
<1> DEFINE keeps == shown.context # ""
<1>1. /\ started' = started + 1 /\ wire' = << >> /\ UNCHANGED <<remade, named>>
      /\ surfaces' = IF keeps THEN surfaces ELSE NoSurfaces
      /\ model' = NoSurfaces \/ model' = IF keeps THEN model ELSE NoSurfaces
      /\ refused' = (refused /\ keeps)
      /\ \E negotiated \in BOOLEAN :
           origin' = [origin EXCEPT ![started + 1] = [mode |-> mode, negotiated |-> negotiated]]
  BY DEF Run, SendPrompt, Rendered
<1> HIDE DEF keeps
<1>2. started \in Nat /\ \A r \in 1..started : r # started + 1 /\ r \in Runs
  <2>1. started \in 0..MaxRuns /\ MaxRuns \in Nat
    BY Bounds DEF IInv, RunsInv
  <2> QED
    BY <2>1 DEF Runs
<1>3. DOMAIN origin' = Runs /\ \A r \in 1..started : origin'[r] = origin[r]
  BY <1>1, <1>2 DEF SurfacesInv
<1>4. /\ Earned(model, started', origin', named') /\ Earned(surfaces, started', origin', named')
  BY <1>1, <1>2, <1>3, EarnedLater DEF SurfacesInv
<1>5. Earned(model, started, origin, named)' /\ Earned(surfaces, started, origin, named)'
  BY <1>1, <1>4, NothingShown
<1>6. (~refused => Rooted(model, remade) /\ Rooted(surfaces, remade))'
  BY <1>1, NothingShown DEF SurfacesInv
<1>7. Underway(wire, started, origin, named)'
  BY <1>1, NothingShown
<1> QED
  BY <1>1, <1>3, <1>5, <1>6, <1>7 DEF SurfacesInv

LEMMA StartOverSurfaces ==
  ASSUME IInv, SurfacesInv, NEW content, StartOver(content)
  PROVE  SurfacesInv'
<1>1. /\ UNCHANGED <<started, origin, named, remade, wire>>
      /\ surfaces' = NoSurfaces /\ model' = NoSurfaces
  BY DEF StartOver, Rendered
<1> QED
  BY <1>1, SurfacesStay

LEMMA CommitSurfaces ==
  ASSUME IInv, SurfacesInv, Commit
  PROVE  SurfacesInv'
<1>1. /\ UNCHANGED <<started, origin, named, remade, wire, surfaces, refused>>
      /\ model' = model \/ model' = NoSurfaces
  BY DEF Commit, Rendered
<1> QED
  BY <1>1, SurfacesStay

LEMMA ReceiveSurfaces ==
  ASSUME PageAssumption, IInv, SurfacesInv, Receive
  PROVE  SurfacesInv'
<1> DEFINE compatibility == origin[started].mode = "compatibility"
           enabled == compatibility \/ origin[started].negotiated
<1>1. PICK payload \in Payloads :
        /\ wire' = ProcessProtocolPayload(payload, enabled, compatibility)
        /\ named' = [named EXCEPT ![started] = @ \cup NamedByParts(payload)]
  BY DEF Receive
<1>2. started \in open /\ UNCHANGED <<started, origin, model, surfaces, refused, remade>>
  BY DEF Receive, Reading
<1>3. started \in Runs /\ started \in Nat
  <2>1. started \in 1..started /\ started \in 0..MaxRuns /\ MaxRuns \in Nat
    BY <1>2, Bounds DEF IInv, RunsInv
  <2> QED
    BY <2>1 DEF Runs
<1>4. /\ DOMAIN named' = Runs
      /\ \A r \in 1..started : named[r] \subseteq named'[r]
      /\ NamedByParts(payload) \subseteq named'[started]
  BY <1>1, <1>3 DEF SurfacesInv
<1>5. /\ IsList(wire')
      /\ \A frame \in ToSet(wire') : frame.kind = "a2ui" =>
           /\ enabled
           /\ IsList(frame.value)
           /\ WellMade(ToSet(frame.value))
           /\ ~compatibility => SurfaceIds(frame.value) \subseteq NamedByParts(payload)
  <2>1. \A place \in DOMAIN payload : payload[place] \in Objects
    BY DEF PageAssumption
  <2> HIDE DEF compatibility
  <2>2. compatibility \in BOOLEAN /\ enabled \in BOOLEAN
    BY DEF compatibility
  <2> HIDE DEF enabled
  <2> QED
    BY <1>1, <2>1, <2>2, FramesFacts
<1>6. origin[started].mode = "strict" => ~compatibility /\ (enabled => origin[started].negotiated)
  OBVIOUS
<1> HIDE DEF enabled, compatibility
<1>7. Underway(wire, started, origin, named)'
  <2>1. ASSUME NEW frame \in ToSet(wire'), frame.kind = "a2ui"
        PROVE  Proper(frame.value, started, origin, named')
    <3>1. \A s \in SurfaceIds(frame.value) : Allowed(started, s, origin, named')
      BY <1>4, <1>5, <1>6, <2>1 DEF Allowed
    <3> QED
      BY <1>5, <2>1, <3>1 DEF Proper
  <2> QED
    BY <1>2, <1>5, <2>1 DEF Underway
<1>8. Earned(model, started, origin, named)' /\ Earned(surfaces, started, origin, named)'
  <2>1. Earned(model, started, origin, named') /\ Earned(surfaces, started, origin, named')
    BY <1>3, <1>4, EarnedLater DEF SurfacesInv
  <2> QED
    BY <1>2, <2>1
<1> QED
  BY <1>2, <1>4, <1>7, <1>8 DEF SurfacesInv

\* What a payload makes of the surfaces in the model: the messages find none of those they
\* name, as these are deleted before they are created.
LEMMA ProcessedFacts ==
  ASSUME NEW messages, Proper(messages, started, origin, named)
  PROVE  LET kept == [s \in DOMAIN model \ SurfacesOf("createSurface", messages) |-> model[s]]
             state == Processed([model |-> kept, refused |-> FALSE], messages)
         IN  /\ \A s \in DOMAIN state.model :
                  \/ s \in DOMAIN model /\ state.model[s] = model[s]
                  \/ s \in SurfaceIds(messages) /\ state.model[s].run = started
             /\ ~state.refused => \A s \in DOMAIN state.model \ CreatedTwice(messages) :
                  \/ s \in DOMAIN model /\ state.model[s] = model[s]
                  \/ "root" \in state.model[s].components
<1> DEFINE created == SurfacesOf("createSurface", messages)
           kept == [s \in DOMAIN model \ created |-> model[s]]
           base == [model |-> kept, refused |-> FALSE]
           state == Processed(base, messages)
           N == Len(messages)
<1>1. IsList(messages) /\ WellMade(ToSet(messages)) /\ N \in Nat
  BY DEF Proper, IsList
<1>2. DOMAIN kept \cap SurfaceIds(messages) = {}
  <2>1. SurfaceIds(messages) \subseteq created
    <3>1. \A m \in ToSet(messages) : \E c \in {c \in ToSet(messages) : c.kind = "createSurface"} :
            c.surfaceId = m.surfaceId
      BY <1>1 DEF WellMade
    <3> QED
      BY <3>1 DEF SurfaceIds, SurfacesOf
  <2>2. DOMAIN kept = DOMAIN model \ created
    OBVIOUS
  <2> HIDE DEF kept, created
  <2> QED
    BY <2>1, <2>2
<1>3. \A s \in DOMAIN kept : s \in DOMAIN model /\ kept[s] = model[s]
  OBVIOUS
<1> HIDE DEF kept
<1>4. base.model = kept /\ Shaped(base)
  BY DEF Shaped
<1>5. \A m \in ToSet(messages) : m.kind \in Kinds
  BY <1>1 DEF WellMade, Normal
<1> HIDE DEF base
<1>6. PICK f : IsProcessing(f, base, messages) /\ state = f[N]
  BY <1>1, Processing
<1>7. N \in 0..N
  BY <1>1
<1>8. \A s \in DOMAIN state.model :
        \/ s \in DOMAIN kept /\ state.model[s] = kept[s]
        \/ s \in SurfaceIds(messages) /\ state.model[s].run = started
  BY <1>1, <1>2, <1>4, <1>5, <1>6, <1>7, ProcessingDescends
<1>9. ASSUME ~state.refused, NEW s \in DOMAIN state.model \ CreatedTwice(messages), s \in SurfaceIds(messages)
      PROVE  "root" \in state.model[s].components
  BY <1>1, <1>2, <1>4, <1>6, <1>9, ProcessingRoots
<1> HIDE DEF state
<1>10. /\ \A s \in DOMAIN state.model :
            \/ s \in DOMAIN model /\ state.model[s] = model[s]
            \/ s \in SurfaceIds(messages) /\ state.model[s].run = started
       /\ ~state.refused => \A s \in DOMAIN state.model \ CreatedTwice(messages) :
            \/ s \in DOMAIN model /\ state.model[s] = model[s]
            \/ "root" \in state.model[s].components
  BY <1>3, <1>8, <1>9
<1> QED
  BY <1>10 DEF state, base, kept

LEMMA HandleA2uiSurfaces ==
  ASSUME IInv, SurfacesInv, NEW messages, Proper(messages, started, origin, named),
         started \in 1..started, ProcessA2uiMessages(messages)
  PROVE  /\ Earned(model', started, origin, named) /\ Earned(surfaces', started, origin, named)
         /\ ~refused' => Rooted(model', remade') /\ Rooted(surfaces', remade')
<1> DEFINE kept == [s \in DOMAIN model \ SurfacesOf("createSurface", messages) |-> model[s]]
           state == Processed([model |-> kept, refused |-> FALSE], messages)
<1>1. /\ model' = state.model
      /\ surfaces' = IF state.refused THEN surfaces ELSE state.model
      /\ refused' = (refused \/ state.refused)
      /\ remade' = remade \cup CreatedTwice(messages)
  BY DEF ProcessA2uiMessages
<1>2. /\ \A s \in DOMAIN state.model :
           \/ s \in DOMAIN model /\ state.model[s] = model[s]
           \/ s \in SurfaceIds(messages) /\ state.model[s].run = started
      /\ ~state.refused => \A s \in DOMAIN state.model \ CreatedTwice(messages) :
           \/ s \in DOMAIN model /\ state.model[s] = model[s]
           \/ "root" \in state.model[s].components
  BY ProcessedFacts
<1> HIDE DEF state
<1>3. Earned(model', started, origin, named)
  BY <1>1, <1>2 DEF SurfacesInv, Earned, Proper
<1>4. ~refused' => Rooted(model', remade')
  BY <1>1, <1>2 DEF SurfacesInv, Rooted
<1> QED
  BY <1>1, <1>3, <1>4 DEF SurfacesInv

LEMMA HandleWorkbenchFrameSurfaces ==
  ASSUME IInv, SurfacesInv, HandleWorkbenchFrame
  PROVE  SurfacesInv'
<1> DEFINE frame == Head(wire)
<1>1. /\ started \in open /\ wire # << >> /\ wire' = Tail(wire)
      /\ UNCHANGED <<started, origin, named>>
      /\ \/ frame.kind = "meta" /\ HandleMeta(frame.value)
         \/ frame.kind = "status" /\ HandleStatus(frame.value)
         \/ frame.kind = "text" /\ HandleText(frame.value)
         \/ frame.kind = "a2ui" /\ HandleA2ui(frame.value)
  BY DEF HandleWorkbenchFrame, Reading
<1>2. started \in 1..started
  BY <1>1 DEF IInv, RunsInv
<1>3. IsList(wire') /\ ToSet(wire') \subseteq ToSet(wire) /\ frame \in ToSet(wire)
  <2>1. Underway(wire, started, origin, named)
    BY DEF SurfacesInv
  <2>2. IsList(wire) /\ wire # << >>
    BY <1>1, <2>1 DEF Underway
  <2> QED
    BY <1>1, <2>2, TailOfList
<1> HIDE DEF frame
<1>4. Underway(wire, started, origin, named)'
  BY <1>1, <1>3 DEF SurfacesInv, Underway
<1>5. /\ Earned(model', started, origin, named) /\ Earned(surfaces', started, origin, named)
      /\ ~refused' => Rooted(model', remade') /\ Rooted(surfaces', remade')
  <2>1. CASE frame.kind = "a2ui" /\ HandleA2ui(frame.value)
    <3>1. Proper(frame.value, started, origin, named)
      BY <1>3, <2>1 DEF SurfacesInv, Underway
    <3>2. ProcessA2uiMessages(frame.value)
      BY <2>1 DEF HandleA2ui
    <3> QED
      BY <1>2, <3>1, <3>2, HandleA2uiSurfaces
  <2>2. CASE UNCHANGED <<model, surfaces, refused, remade>>
    BY <2>2 DEF SurfacesInv
  <2> QED
    BY <1>1, <2>1, <2>2 DEF HandleMeta, HandleStatus, HandleText
<1> QED
  BY <1>1, <1>4, <1>5 DEF SurfacesInv

\* The surfaces, in the model and on the page, run by run.
THEOREM SurfacesInvariance ==
  Spec => []SurfacesInv
<1>1. Init => SurfacesInv
  BY InitSurfaces
<1>2. IInv /\ SurfacesInv /\ [Next]_vars => SurfacesInv'
  <2> SUFFICES ASSUME IInv, SurfacesInv, [Next]_vars PROVE SurfacesInv'
    OBVIOUS
  <2>1. CASE Run
    BY <2>1, PageAssumption, RunSurfaces
  <2>2. CASE Clear
    BY <2>2, StartOverSurfaces DEF Clear
  <2>3. CASE ChangeMode
    BY <2>3, StartOverSurfaces DEF ChangeMode
  <2>4. CASE Commit
    BY <2>4, CommitSurfaces
  <2>5. CASE Receive
    BY <2>5, PageAssumption, ReceiveSurfaces
  <2>6. CASE HandleWorkbenchFrame
    BY <2>6, HandleWorkbenchFrameSurfaces
  <2>7. CASE AbortRun
    BY <2>7, SurfacesStay DEF AbortRun
  <2>8. CASE ReadEnd
    BY <2>8, SurfacesStay DEF ReadEnd, Return
  <2>9. CASE CatchAbort
    BY <2>9, SurfacesStay DEF CatchAbort, Return
  <2>10. CASE UNCHANGED vars
    BY <2>10, SurfacesStay DEF vars
  <2> QED
    BY <2>1, <2>2, <2>3, <2>4, <2>5, <2>6, <2>7, <2>8, <2>9, <2>10 DEF Next
<1> QED
  BY <1>1, <1>2, TranscriptInvariance, PTL DEF Spec

\* In strict mode only what typed Parts name becomes a surface, in runs with the extension.
THEOREM SurfacesCorrect ==
  Spec => []StrictSurfacesWereNegotiated
<1>1. SurfacesInv => StrictSurfacesWereNegotiated
  BY DEF SurfacesInv, StrictSurfacesWereNegotiated, Earned, Allowed
<1> QED
  BY <1>1, SurfacesInvariance, PTL

\* Every surface the page shows has a root, unless the renderer has refused messages since the
\* surfaces were last cleared or one payload created the surface more than once.
THEOREM RootsCorrect ==
  Spec => []ShownSurfacesHaveRoot
<1>1. SurfacesInv => ShownSurfacesHaveRoot
  BY DEF SurfacesInv, ShownSurfacesHaveRoot, Rooted
<1> QED
  BY <1>1, SurfacesInvariance, PTL
----------------------------------------------------------------------------
(***************************************************************************)
(* Texts: what one of them includes of another one, without their spaces,  *)
(* and what is left of them when they are merged.                          *)
(***************************************************************************)
\* The parts of a concatenation, however they are put together.
Associates(s, t, u) == (s \o t) \o u = s \o (t \o u)

\* The law of association, under a name.
LEMMA Associate ==
  \A C : \A s, t, u \in Seq(C) : Associates(s, t, u)
BY ConcatAssociative DEF Associates

\* A concatenation of three parts.
LEMMA ThreeParts ==
  ASSUME NEW C, NEW a \in Seq(C), NEW b \in Seq(C), NEW c \in Seq(C)
  PROVE  /\ (a \o b) \o c \in Seq(C) /\ (a \o b) \o c = a \o (b \o c)
         /\ Len((a \o b) \o c) = Len(a) + Len(b) + Len(c)
         /\ \A i \in 1..Len(b) : ((a \o b) \o c)[Len(a) + i] = b[i]
<1>1. /\ a \o b \in Seq(C) /\ Len(a \o b) = Len(a) + Len(b)
      /\ \A i \in 1..Len(a) + Len(b) : (a \o b)[i] = IF i <= Len(a) THEN a[i] ELSE b[i - Len(a)]
  BY ConcatProperties
<1>2. /\ (a \o b) \o c \in Seq(C) /\ Len((a \o b) \o c) = Len(a \o b) + Len(c)
      /\ \A i \in 1..Len(a \o b) + Len(c) : ((a \o b) \o c)[i] =
           IF i <= Len(a \o b) THEN (a \o b)[i] ELSE c[i - Len(a \o b)]
  BY <1>1, ConcatProperties
<1>3. Len(a) \in Nat /\ Len(b) \in Nat /\ Len(c) \in Nat
  BY LenProperties
<1>4. ASSUME NEW i \in 1..Len(b)
      PROVE  ((a \o b) \o c)[Len(a) + i] = b[i]
  <2>1. /\ Len(a) + i \in 1..Len(a) + Len(b) /\ Len(a) + i <= Len(a) + Len(b)
        /\ Len(a) + i \in 1..(Len(a) + Len(b)) + Len(c)
        /\ ~(Len(a) + i <= Len(a)) /\ (Len(a) + i) - Len(a) = i
    BY <1>3
  <2>2. ((a \o b) \o c)[Len(a) + i] = (a \o b)[Len(a) + i]
    BY <1>1, <1>2, <2>1
  <2>3. (a \o b)[Len(a) + i] = b[i]
    BY <1>1, <2>1
  <2> QED
    BY <2>2, <2>3
<1>5. (a \o b) \o c = a \o (b \o c)
  <2>1. Associates(a, b, c)
    BY Associate
  <2> QED
    BY <2>1 DEF Associates
<1>6. Len((a \o b) \o c) = Len(a) + Len(b) + Len(c)
  BY <1>1, <1>2
<1> QED
  BY <1>2, <1>4, <1>5, <1>6

\* The laws of concatenation.
LEMMA Concats ==
  ASSUME NEW C
  PROVE  /\ << >> \in Seq(C) /\ \A s \in Seq(C) : << >> \o s = s /\ s \o << >> = s
         /\ \A s, t \in Seq(C) : s \o t \in Seq(C)
         /\ \A s, t, u \in Seq(C) : (s \o t) \o u = s \o (t \o u)
<1>1. << >> \in Seq(C) /\ \A s \in Seq(C) : << >> \o s = s /\ s \o << >> = s
  BY EmptySeq, ConcatEmptySeq
<1>2. \A s, t \in Seq(C) : s \o t \in Seq(C)
  BY ConcatProperties
<1>3. \A s, t, u \in Seq(C) : (s \o t) \o u = s \o (t \o u)
  <2>1. \A s, t, u \in Seq(C) : Associates(s, t, u)
    BY Associate
  <2> QED
    BY <2>1 DEF Associates
<1> QED
  BY <1>1, <1>2, <1>3

Regroups(a, b, c, d, s) ==
  (a \o ((c \o s) \o d)) \o b = ((a \o c) \o s) \o (d \o b)

\* What surrounds the middle of a middle surrounds it in the whole.
LEMMA Regroup ==
  ASSUME NEW C, NEW a \in Seq(C), NEW b \in Seq(C), NEW c \in Seq(C), NEW d \in Seq(C),
         NEW s \in Seq(C)
  PROVE  Regroups(a, b, c, d, s)
<1>1. c \o s \in Seq(C) /\ a \o c \in Seq(C)
  BY ConcatProperties
<1>2. (a \o c) \o s \in Seq(C)
  BY <1>1, ConcatProperties
<1>3. \A x, y, z \in Seq(C) : Associates(x, y, z)
  BY Associate
<1>4. Associates(a, c \o s, d)
  BY <1>1, <1>3
<1>5. Associates(a, c, s)
  BY <1>3
<1>6. Associates((a \o c) \o s, d, b)
  BY <1>2, <1>3
<1> QED
  BY <1>4, <1>5, <1>6 DEF Associates, Regroups

\* A text includes another one if it is something, the other one, and something more.
Surrounds(text, part, T) == \E a, b \in T : text = (a \o part) \o b

\* The search for a place in the text finds what surrounds.
LEMMA IncludesBy ==
  ASSUME NEW C, NEW text \in Seq(C), NEW part \in Seq(C)
  PROVE  Includes(text, part) <=> Surrounds(text, part, Seq(C))
<1> DEFINE M == Len(text)
           P == Len(part)
<1>1. M \in Nat /\ P \in Nat
  OBVIOUS
<1>2. ASSUME Includes(text, part)
      PROVE  Surrounds(text, part, Seq(C))
  <2>1. PICK n \in 0..(M - P) : SubSeq(text, n + 1, n + P) = part
    BY <1>2 DEF Includes
  <2> DEFINE a == SubSeq(text, 1, n)
             b == SubSeq(text, n + P + 1, M)
  <2>2. /\ n \in Nat /\ P <= M - n /\ 1 \in 1..M + 1
        /\ n \in 1 - 1..M /\ n + P \in n..M /\ n + P \in 1 - 1..M /\ M \in n + P..M
    BY <1>1
  <2>3. a \in Seq(C) /\ b \in Seq(C)
    <3>1. /\ \A i \in 1..n : i \in 1..M
          /\ \A i \in n + P + 1..M : i \in 1..M
      BY <1>1, <2>2
    <3>2. \A i \in 1..M : text[i] \in C
      BY ElementOfSeq
    <3> QED
      BY <1>1, <2>2, <3>1, <3>2, SubSeqProperties
  <2>4. a \o part = SubSeq(text, 1, n + P)
    BY <2>1, <2>2, ConcatAdjacentSubSeq
  <2> HIDE DEF M, P
  <2>5. SubSeq(text, 1, n + P) \o SubSeq(text, n + P + 1, M) = SubSeq(text, 1, M)
    <3>1. M = Len(text)
      BY DEF M
    <3> QED
      BY <2>2, <3>1, ConcatAdjacentSubSeq
  <2>6. SubSeq(text, 1, M) = text
    BY SubSeqFull DEF M
  <2> HIDE DEF a, b
  <2>7. text = (a \o part) \o b
    BY <2>4, <2>5, <2>6, Zenon DEF b
  <2> QED
    BY <2>3, <2>7, Zenon DEF Surrounds
<1>3. ASSUME NEW a \in Seq(C), NEW b \in Seq(C), text = (a \o part) \o b
      PROVE  Includes(text, part)
  <2> DEFINE n == Len(a)
             sub == SubSeq(text, n + 1, n + P)
  <2>1. n \in Nat /\ Len(b) \in Nat
    BY LenProperties
  <2>2. M = n + P + Len(b) /\ \A i \in 1..P : text[n + i] = part[i]
    BY <1>3, ThreeParts
  <2>3. n \in 0..(M - P) /\ n + 1 \in Int /\ n + P \in Int
    BY <1>1, <2>1, <2>2
  <2>4. /\ sub \in Seq(C) /\ Len(sub) = (IF n + 1 <= n + P THEN n + P - (n + 1) + 1 ELSE 0)
        /\ \A i \in 1 .. (n + P) - (n + 1) + 1 : sub[i] = text[(n + 1) + i - 1]
    <3>1. \A i \in n + 1..n + P : i \in 1..M
      BY <1>1, <2>1, <2>2
    <3>2. \A i \in n + 1..n + P : text[i] \in C
      BY <3>1, ElementOfSeq
    <3> QED
      BY <2>3, <3>2, SubSeqProperties
  <2>5. Len(sub) = P
    BY <1>1, <2>1, <2>4
  <2>6. \A i \in 1..P : sub[i] = part[i]
    <3>1. \A i \in 1..P : i \in 1 .. (n + P) - (n + 1) + 1 /\ (n + 1) + i - 1 = n + i
      BY <1>1, <2>1
    <3> QED
      BY <2>2, <2>4, <3>1
  <2>7. sub = part
    <3> HIDE DEF sub, n, M
    <3> QED
      BY <2>4, <2>5, <2>6, SeqEqual
  <2> QED
    BY <2>3, <2>7 DEF Includes
<1> QED
  BY <1>2, <1>3, Zenon DEF Surrounds

\* Inclusion is reflexive and transitive, and survives whatever is added at an end.
LEMMA IncludesFacts ==
  ASSUME NEW C, NEW text \in Seq(C)
  PROVE  /\ Includes(text, text) /\ Includes(text, << >>)
         /\ \A more \in Seq(C) : Includes(text \o more, text) /\ Includes(more \o text, text)
         /\ \A part \in Seq(C) : Includes(text, part) =>
              /\ Len(part) <= Len(text)
              /\ \A less \in Seq(C) : Includes(part, less) => Includes(text, less)
<1> DEFINE T == Seq(C)
<1>1. /\ << >> \in T /\ \A s \in T : << >> \o s = s /\ s \o << >> = s
      /\ \A s, t \in T : s \o t \in T
  BY Concats
<1>2. \A s, t \in T : Includes(s, t) <=> Surrounds(s, t, T)
  BY IncludesBy
<1>3. \A s \in T : Len(s) \in Nat
  BY LenProperties
<1>4. text \in T
  OBVIOUS
<1> SUFFICES /\ Includes(text, text) /\ Includes(text, << >>)
             /\ \A more \in T : Includes(text \o more, text) /\ Includes(more \o text, text)
             /\ \A part \in T : Includes(text, part) =>
                  /\ Len(part) <= Len(text)
                  /\ \A less \in T : Includes(part, less) => Includes(text, less)
  OBVIOUS
<1> HIDE DEF T
<1>5. Includes(text, text)
  BY <1>1, <1>2, <1>4 DEF Surrounds
<1>6. Includes(text, << >>)
  <2>1. text = (text \o << >>) \o << >>
    BY <1>1, <1>4
  <2> QED
    BY <1>1, <1>2, <1>4, <2>1 DEF Surrounds
<1>7. ASSUME NEW more \in T
      PROVE  Includes(text \o more, text) /\ Includes(more \o text, text)
  <2>1. text \o more \in T /\ more \o text \in T
    BY <1>1, <1>4
  <2>2. text \o more = (<< >> \o text) \o more /\ more \o text = (more \o text) \o << >>
    BY <1>1, <1>4, <2>1
  <2>3. Includes(text \o more, text)
    BY <1>1, <1>2, <1>4, <2>1, <2>2 DEF Surrounds
  <2>4. Includes(more \o text, text)
    BY <1>1, <1>2, <1>4, <2>1, <2>2 DEF Surrounds
  <2> QED
    BY <2>3, <2>4
<1>8. ASSUME NEW part \in T, Includes(text, part)
      PROVE  Len(part) <= Len(text)
  <2>1. PICK n \in 0..(Len(text) - Len(part)) : TRUE
    BY <1>8 DEF Includes
  <2>2. Len(text) \in Nat /\ Len(part) \in Nat
    BY <1>3, <1>4
  <2> QED
    BY <2>1, <2>2
<1>9. ASSUME NEW part \in T, Includes(text, part), NEW less \in T, Includes(part, less)
      PROVE  Includes(text, less)
  <2>1. Surrounds(text, part, T) /\ Surrounds(part, less, T)
    BY <1>9, <1>2, <1>4
  <2>2. PICK a \in T, b \in T : text = (a \o part) \o b
    BY <2>1 DEF Surrounds
  <2>3. PICK c \in T, d \in T : part = (c \o less) \o d
    BY <2>1 DEF Surrounds
  <2>4. a \o c \in T /\ d \o b \in T
    BY <1>1
  <2>5. text = ((a \o c) \o less) \o (d \o b)
    <3>1. Regroups(a, b, c, d, less)
      BY Regroup DEF T
    <3> QED
      BY <2>2, <2>3, <3>1 DEF Regroups
  <2> QED
    BY <1>2, <1>4, <2>4, <2>5 DEF Surrounds
<1> QED
  BY <1>5, <1>6, <1>7, <1>8, <1>9

\* A character is a text.
LEMMA OneChar ==
  ASSUME NEW C, NEW x \in C
  PROVE  <<x>> \in Seq(C) /\ Len(<<x>>) = 1
<1>1. <<x>> \in Seq(C)
  OBVIOUS
<1>2. Len(<<x>>) = 1
  OBVIOUS
<1> QED
  BY <1>1, <1>2

\* A text without its spaces, character by character.
IsCompacting(g, text) ==
  /\ g[0] = << >>
  /\ \A i \in 1..Len(text) : g[i] = IF text[i] = " " THEN g[i - 1] ELSE g[i - 1] \o <<text[i]>>

\* CompactText is reached character by character.
LEMMA Compacting ==
  ASSUME NEW C, NEW text \in Seq(C)
  PROVE  \E g \in [0..Len(text) -> Seq(C)] :
           IsCompacting(g, text) /\ CompactText(text) = g[Len(text)]
<1> DEFINE N == Len(text)
           seqs == [i \in DOMAIN text |-> IF text[i] = " " THEN << >> ELSE <<text[i]>>]
<1>1. N \in Nat /\ DOMAIN text = 1..N /\ \A i \in 1..N : text[i] \in C
  BY LenProperties, ElementOfSeq
<1>2. CompactText(text) = FlattenSeq(seqs)
  BY DEF CompactText
<1>3. /\ DOMAIN seqs = 1..N /\ seqs = [i \in 1..N |-> seqs[i]]
      /\ \A i \in 1..N : seqs[i] = IF text[i] = " " THEN << >> ELSE <<text[i]>>
  BY <1>1
<1> HIDE DEF N, seqs
<1>4. \A i \in 1..N : seqs[i] \in Seq(C)
  <2> TAKE i \in 1..N
  <2>1. << >> \in Seq(C) /\ <<text[i]>> \in Seq(C)
    BY <1>1, OneChar, EmptySeq
  <2> QED
    BY <1>3, <2>1
<1>5. seqs \in Seq(Seq(C)) /\ Len(seqs) = N
  BY <1>1, <1>3, <1>4, MappedList
<1>6. PICK g \in [0..N -> Seq(C)] : IsFlattening(g, seqs) /\ FlattenSeq(seqs) = g[N]
  BY <1>5, Flattening
<1>7. \A i \in 1..N : g[i] = IF text[i] = " " THEN g[i - 1] ELSE g[i - 1] \o <<text[i]>>
  <2> TAKE i \in 1..N
  <2>1. g[i] = g[i - 1] \o seqs[i]
    BY <1>5, <1>6 DEF IsFlattening
  <2>2. g[i - 1] \in Seq(C)
    <3>1. i - 1 \in 0..N
      BY <1>1
    <3> QED
      BY <3>1
  <2>3. g[i - 1] \o << >> = g[i - 1]
    BY <2>2, ConcatEmptySeq
  <2> QED
    BY <1>3, <2>1, <2>3
<1> QED
  BY <1>2, <1>6, <1>7 DEF IsCompacting, IsFlattening, N

\* What is left of a text is a text, no longer than it, and nothing is left of blanks.
LEMMA CompactFacts ==
  ASSUME NEW C, NEW text \in Seq(C)
  PROVE  /\ CompactText(text) \in Seq(C)
         /\ Len(CompactText(text)) <= Len(text)
         /\ (\A i \in DOMAIN text : text[i] = " ") => CompactText(text) = << >>
<1> DEFINE N == Len(text)
<1>1. N \in Nat /\ DOMAIN text = 1..N /\ \A i \in 1..N : text[i] \in C
  BY LenProperties, ElementOfSeq
<1>2. PICK g \in [0..N -> Seq(C)] : IsCompacting(g, text) /\ CompactText(text) = g[N]
  BY Compacting
<1>3. g[0] = << >> /\ \A i \in 1..N : g[i] = IF text[i] = " " THEN g[i - 1] ELSE g[i - 1] \o <<text[i]>>
  BY <1>2 DEF IsCompacting
<1> HIDE DEF N
<1> DEFINE S == {n \in 0..N : /\ Len(g[n]) <= n
                              /\ (\A i \in DOMAIN text : text[i] = " ") => g[n] = << >>}
<1>4. 0 \in S
  <2>1. Len(<< >>) = 0 /\ 0 \in 0..N
    BY <1>1, EmptySeq
  <2>2. g[0] = << >>
    BY <1>3
  <2>3. Len(g[0]) <= 0
    BY <2>1, <2>2
  <2> QED
    BY <2>1, <2>2, <2>3, Zenon
<1>5. \A n \in 1..N : n - 1 \in S => n \in S
  <2> TAKE n \in 1..N
  <2>1. HAVE n - 1 \in S
  <2>2. n \in 0..N /\ n - 1 \in 0..N /\ n \in Nat /\ n - 1 < n
    BY <1>1
  <2>3. g[n - 1] \in Seq(C) /\ Len(g[n - 1]) \in Nat /\ Len(g[n - 1]) <= n - 1
    BY <2>1, <2>2, LenProperties
  <2>4. CASE text[n] = " "
    <3>1. g[n] = g[n - 1]
      BY <1>3, <2>4
    <3>2. Len(g[n]) <= n
      BY <2>2, <2>3, <3>1
    <3>3. (\A i \in DOMAIN text : text[i] = " ") => g[n] = << >>
      BY <2>1, <3>1
    <3> QED
      BY <2>2, <3>2, <3>3, Zenon
  <2>5. CASE text[n] # " "
    <3>1. g[n] = g[n - 1] \o <<text[n]>>
      BY <1>3, <2>5
    <3>2. <<text[n]>> \in Seq(C) /\ Len(<<text[n]>>) = 1
      BY <1>1, OneChar
    <3>3. Len(g[n]) = Len(g[n - 1]) + 1
      BY <2>3, <3>1, <3>2, ConcatProperties
    <3>4. Len(g[n]) <= n
      BY <2>2, <2>3, <3>3
    <3> QED
      BY <1>1, <2>2, <2>5, <3>4
  <2> QED
    BY <2>4, <2>5
<1>6. N \in S
  <2>1. 0..N \subseteq S
    <3> HIDE DEF S
    <3> QED
      BY <1>1, <1>4, <1>5, InductUpTo
  <2>2. N \in 0..N
    BY <1>1
  <2> QED
    BY <2>1, <2>2
<1>7. g[N] \in Seq(C)
  BY <1>1
<1> QED
  BY <1>2, <1>6, <1>7 DEF N

\* The spaces of a concatenation are those of its parts.
LEMMA CompactConcat ==
  ASSUME NEW C, NEW a \in Seq(C), NEW b \in Seq(C)
  PROVE  CompactText(a \o b) = CompactText(a) \o CompactText(b)
<1> DEFINE M == Len(a)
           N == Len(b)
           ab == a \o b
<1>1. M \in Nat /\ N \in Nat /\ \A i \in 1..N : b[i] \in C
  BY LenProperties, ElementOfSeq
<1>2. /\ ab \in Seq(C) /\ Len(ab) = M + N
      /\ \A i \in 1..M + N : ab[i] = IF i <= M THEN a[i] ELSE b[i - M]
  BY ConcatProperties
<1>3. PICK g \in [0..M -> Seq(C)] : IsCompacting(g, a) /\ CompactText(a) = g[M]
  BY Compacting
<1>4. PICK h \in [0..N -> Seq(C)] : IsCompacting(h, b) /\ CompactText(b) = h[N]
  BY Compacting
<1> HIDE DEF ab
<1>5. PICK k \in [0..M + N -> Seq(C)] : IsCompacting(k, ab) /\ CompactText(ab) = k[M + N]
  <2>1. ab \in Seq(C) /\ Len(ab) = M + N
    BY <1>2
  <2>2. \E k \in [0..Len(ab) -> Seq(C)] : IsCompacting(k, ab) /\ CompactText(ab) = k[Len(ab)]
    BY <2>1, Compacting
  <2> HIDE DEF M, N
  <2> QED
    BY <2>1, <2>2
<1>6. /\ g[0] = << >>
      /\ \A i \in 1..M : g[i] = IF a[i] = " " THEN g[i - 1] ELSE g[i - 1] \o <<a[i]>>
  BY <1>3 DEF IsCompacting
<1>7. /\ h[0] = << >>
      /\ \A i \in 1..N : h[i] = IF b[i] = " " THEN h[i - 1] ELSE h[i - 1] \o <<b[i]>>
  BY <1>4 DEF IsCompacting
<1>8. /\ k[0] = << >>
      /\ \A i \in 1..M + N : k[i] = IF ab[i] = " " THEN k[i - 1] ELSE k[i - 1] \o <<ab[i]>>
  BY <1>2, <1>5 DEF IsCompacting
<1> HIDE DEF M, N
<1>9. k[M] = g[M]
  <2> DEFINE S == {n \in 0..M : k[n] = g[n]}
  <2>1. 0 \in S
    <3>1. k[0] = g[0]
      BY <1>6, <1>8
    <3>2. 0 \in 0..M
      BY <1>1
    <3> QED
      BY <3>1, <3>2
  <2>2. \A n \in 1..M : n - 1 \in S => n \in S
    <3> TAKE n \in 1..M
    <3>1. HAVE n - 1 \in S
    <3>2. n \in 1..M + N /\ n <= M /\ n \in 0..M
      BY <1>1
    <3>3. ab[n] = a[n]
      BY <1>2, <3>2
    <3> QED
      BY <1>6, <1>8, <3>1, <3>2, <3>3
  <2>3. 0..M \subseteq S
    <3> HIDE DEF S
    <3> QED
      BY <1>1, <2>1, <2>2, InductUpTo
  <2> QED
    BY <1>1, <2>3
<1>10. k[M + N] = g[M] \o h[N]
  <2> DEFINE S == {n \in 0..N : k[M + n] = g[M] \o h[n]}
  <2>1. g[M] \in Seq(C)
    BY <1>1
  <2>2. 0 \in S
    <3>1. g[M] \o << >> = g[M] /\ M + 0 = M
      BY <1>1, <2>1, ConcatEmptySeq
    <3>2. k[M + 0] = g[M] \o h[0]
      BY <1>7, <1>9, <3>1
    <3>3. 0 \in 0..N
      BY <1>1
    <3> QED
      BY <3>2, <3>3
  <2>3. \A n \in 1..N : n - 1 \in S => n \in S
    <3> TAKE n \in 1..N
    <3>1. HAVE n - 1 \in S
    <3>2. /\ M + n \in 1..M + N /\ ~(M + n <= M) /\ n \in 0..N /\ n - 1 \in 0..N
          /\ (M + n) - M = n /\ (M + n) - 1 = M + (n - 1)
      BY <1>1
    <3>3. ab[M + n] = b[n]
      BY <1>2, <3>2
    <3>4. k[M + n] = IF b[n] = " " THEN k[M + (n - 1)] ELSE k[M + (n - 1)] \o <<b[n]>>
      BY <1>8, <3>2, <3>3
    <3>5. h[n] = IF b[n] = " " THEN h[n - 1] ELSE h[n - 1] \o <<b[n]>>
      BY <1>7
    <3>6. k[M + (n - 1)] = g[M] \o h[n - 1]
      BY <3>1
    <3>7. Associates(g[M], h[n - 1], <<b[n]>>)
      <4>1. h[n - 1] \in Seq(C) /\ <<b[n]>> \in Seq(C)
        <5>1. h[n - 1] \in Seq(C)
          <6>1. n - 1 \in 0..N
            BY <3>2
          <6> QED
            BY <6>1
        <5>2. b[n] \in C
          BY <1>1
        <5> QED
          BY <5>1, <5>2, OneChar
      <4>2. \A x, y, z \in Seq(C) : Associates(x, y, z)
        BY Associate, Zenon
      <4> QED
        BY <2>1, <4>1, <4>2, Zenon
    <3>8. k[M + n] = g[M] \o h[n]
      BY <3>4, <3>5, <3>6, <3>7 DEF Associates
    <3> QED
      BY <3>2, <3>8
  <2>4. 0..N \subseteq S
    <3> HIDE DEF S
    <3> QED
      BY <1>1, <2>2, <2>3, InductUpTo
  <2>5. N \in S
    <3> HIDE DEF S
    <3> QED
      BY <1>1, <2>4
  <2> QED
    BY <2>5
<1> QED
  BY <1>3, <1>4, <1>5, <1>10 DEF ab

\* The minimum of some natural numbers.
LEMMA Smallest ==
  ASSUME NEW S \in SUBSET Nat, S # {}
  PROVE  Min(S) \in S /\ \A x \in S : Min(S) <= x
<1>1. \E x \in S : \A y \in S : x <= y
  BY Least
<1> QED
  BY <1>1 DEF Min

\* A piece of a text.
LEMMA Piece ==
  ASSUME NEW C, NEW text \in Seq(C), NEW m \in 1..Len(text) + 1, NEW n \in m - 1..Len(text)
  PROVE  /\ SubSeq(text, m, n) \in Seq(C) /\ Len(SubSeq(text, m, n)) = n - m + 1
         /\ DOMAIN SubSeq(text, m, n) = 1..n - m + 1
         /\ \A i \in 1..n - m + 1 : SubSeq(text, m, n)[i] = text[m + i - 1]
<1>1. Len(text) \in Nat
  BY LenProperties
<1>2. m \in Int /\ n \in Int /\ \A i \in m..n : i \in 1..Len(text)
  BY <1>1
<1>3. \A i \in m..n : text[i] \in C
  BY <1>2, ElementOfSeq
<1>4. /\ SubSeq(text, m, n) \in Seq(C)
      /\ Len(SubSeq(text, m, n)) = IF m <= n THEN n - m + 1 ELSE 0
      /\ \A i \in 1 .. n - m + 1 : SubSeq(text, m, n)[i] = text[m + i - 1]
  BY <1>2, <1>3, SubSeqProperties
<1>5. (IF m <= n THEN n - m + 1 ELSE 0) = n - m + 1
  BY <1>1
<1>6. DOMAIN SubSeq(text, m, n) = 1..Len(SubSeq(text, m, n))
  BY <1>4, LenProperties
<1> QED
  BY <1>4, <1>5, <1>6

\* The characters of a text between its first and its last one that are no blanks.
Between(text, lo, hi) ==
  /\ Trim(text) = SubSeq(text, lo, hi)
  /\ \A i \in 1..Len(text) : (i < lo \/ i > hi) => text[i] = " "

\* A text that is not blank.
Marked(text) == \E i \in DOMAIN text : text[i] # " "

\* Trim cuts blanks off, and nothing else.
LEMMA Trimming ==
  ASSUME NEW C, NEW text \in Seq(C), Marked(text)
  PROVE  \E lo, hi \in 1..Len(text) : lo <= hi /\ Between(text, lo, hi)
<1> DEFINE N == Len(text)
           marks == {i \in 1..N : text[i] # " "}
<1>1. N \in Nat /\ DOMAIN text = 1..N
  BY LenProperties
<1>2. marks # {}
  BY <1>1 DEF Marked
<1>3. Trim(text) = SubSeq(text, Min(marks), Max(marks))
  BY <1>1, <1>2 DEF Trim
<1> HIDE DEF N
<1>4. \A i \in marks : i \in 1..N
  OBVIOUS
<1>5. N \in Nat
  BY <1>1
<1>6. \A i \in 1..N : i \in Nat /\ i <= N
  BY <1>5
<1>7. \A i \in 1..N : i \notin marks => text[i] = " "
  OBVIOUS
<1> HIDE DEF marks
<1>8. marks \in SUBSET Nat /\ \A i \in marks : i <= N
  BY <1>4, <1>6
<1> DEFINE lo == Min(marks)
           hi == Max(marks)
<1>9. lo \in marks /\ (\A i \in marks : lo <= i) /\ hi \in marks /\ \A i \in marks : i <= hi
  BY <1>1, <1>2, <1>8, Smallest, Greatest
<1> HIDE DEF lo, hi
<1>10. lo \in 1..N /\ hi \in 1..N /\ lo <= hi
  BY <1>4, <1>9
<1>11. \A i \in 1..N : (i < lo \/ i > hi) => text[i] = " "
  <2> TAKE i \in 1..N
  <2>1. HAVE i < lo \/ i > hi
  <2>2. i \in Nat /\ lo \in Nat /\ hi \in Nat
    BY <1>10, <1>6
  <2>3. ASSUME i \in marks PROVE FALSE
    <3>1. lo <= i /\ i <= hi
      BY <1>9, <2>3
    <3> QED
      BY <2>1, <2>2, <3>1
  <2> QED
    BY <1>7, <2>3
<1>12. Between(text, lo, hi)
  BY <1>3, <1>11 DEF Between, N, lo, hi
<1> QED
  BY <1>10, <1>12 DEF N

\* Blanks at the ends of a text are of no account where texts are compared.
LEMMA TrimFacts ==
  ASSUME NEW C, NEW text \in Seq(C)
  PROVE  /\ Trim(text) \in Seq(C) /\ Len(Trim(text)) <= Len(text)
         /\ CompactText(Trim(text)) = CompactText(text)
<1> DEFINE N == Len(text)
           marks == {i \in DOMAIN text : text[i] # " "}
<1>1. N \in Nat /\ DOMAIN text = 1..N
  BY LenProperties
<1> HIDE DEF N
<1>2. CASE marks = {}
  <2>1. Trim(text) = << >> /\ << >> \in Seq(C) /\ Len(<< >>) = 0
    BY <1>2, EmptySeq DEF Trim
  <2>2. CompactText(text) = << >>
    <3>1. \A i \in DOMAIN text : text[i] = " "
      BY <1>2
    <3> QED
      BY <3>1, CompactFacts
  <2>3. CompactText(<< >>) = << >>
    <3>1. << >> \in Seq(C) /\ \A i \in DOMAIN << >> : << >>[i] = " "
      BY <2>1, EmptyList
    <3> QED
      BY <3>1, CompactFacts
  <2> QED
    BY <1>1, <2>1, <2>2, <2>3 DEF N
<1>3. CASE marks # {}
  <2>1. Marked(text)
    BY <1>3 DEF Marked
  <2>2. PICK lo \in 1..N, hi \in 1..N : lo <= hi /\ Between(text, lo, hi)
    BY <2>1, Trimming DEF N
  <2> DEFINE front == SubSeq(text, 1, lo - 1)
             middle == SubSeq(text, lo, hi)
             back == SubSeq(text, hi + 1, N)
  <2>3. Trim(text) = middle /\ \A i \in 1..N : (i < lo \/ i > hi) => text[i] = " "
    BY <2>2 DEF Between, N
  <2> HIDE DEF marks
  <2>4. /\ 1 \in 1..N + 1 /\ lo - 1 \in 1 - 1..N /\ hi \in lo - 1..N /\ hi \in 1 - 1..N /\ N \in hi..N
        /\ lo \in 1..N + 1 /\ hi + 1 \in 1..N + 1 /\ N \in (hi + 1) - 1..N /\ (lo - 1) + 1 = lo
    BY <1>1, <2>2
  <2>5. /\ front \in Seq(C) /\ DOMAIN front = 1..(lo - 1) - 1 + 1
        /\ \A i \in 1..(lo - 1) - 1 + 1 : front[i] = text[1 + i - 1]
    BY <2>4, Piece DEF N
  <2>6. middle \in Seq(C) /\ Len(middle) = hi - lo + 1
    BY <2>4, Piece DEF N
  <2>7. /\ back \in Seq(C) /\ DOMAIN back = 1..N - (hi + 1) + 1
        /\ \A i \in 1..N - (hi + 1) + 1 : back[i] = text[(hi + 1) + i - 1]
    BY <2>4, Piece DEF N
  <2>8. CompactText(front) = << >>
    <3>1. \A i \in 1..(lo - 1) - 1 + 1 : 1 + i - 1 \in 1..N /\ 1 + i - 1 < lo
      BY <1>1, <2>2
    <3>2. \A i \in DOMAIN front : front[i] = " "
      BY <2>3, <2>5, <3>1
    <3> QED
      BY <2>5, <3>2, CompactFacts
  <2>9. CompactText(back) = << >>
    <3>1. \A i \in 1..N - (hi + 1) + 1 : (hi + 1) + i - 1 \in 1..N /\ (hi + 1) + i - 1 > hi
      BY <1>1, <2>2
    <3>2. \A i \in DOMAIN back : back[i] = " "
      BY <2>3, <2>7, <3>1
    <3> QED
      BY <2>7, <3>2, CompactFacts
  <2>10. text = (front \o middle) \o back
    <3>1. front \o SubSeq(text, (lo - 1) + 1, hi) = SubSeq(text, 1, hi)
      BY <2>4, ConcatAdjacentSubSeq DEF N
    <3>2. SubSeq(text, 1, hi) \o back = SubSeq(text, 1, N)
      BY <2>4, ConcatAdjacentSubSeq DEF N
    <3>3. SubSeq(text, 1, N) = text
      BY SubSeqFull DEF N
    <3> QED
      BY <2>4, <3>1, <3>2, <3>3
  <2> HIDE DEF front, middle, back
  <2>11. CompactText(text) = CompactText(middle)
    <3>1. front \o middle \in Seq(C)
      BY <2>5, <2>6, ConcatProperties
    <3>2. CompactText(text) = CompactText(front \o middle) \o CompactText(back)
      BY <2>7, <2>10, <3>1, CompactConcat
    <3>3. CompactText(front \o middle) = CompactText(front) \o CompactText(middle)
      BY <2>5, <2>6, CompactConcat
    <3>4. CompactText(middle) \in Seq(C)
      BY <2>6, CompactFacts
    <3>5. /\ << >> \o CompactText(middle) = CompactText(middle)
          /\ CompactText(middle) \o << >> = CompactText(middle)
      BY <3>4, ConcatEmptySeq
    <3> QED
      BY <2>8, <2>9, <3>2, <3>3, <3>5
  <2>12. Len(middle) <= N
    BY <1>1, <2>2, <2>6
  <2> QED
    BY <2>3, <2>6, <2>11, <2>12 DEF N
<1> QED
  BY <1>2, <1>3

\* Long enough to be a final answer or to repeat the end of the message.
Long(text) == Len(text) >= Min({ShortFragmentMaxLength, LongFinalMinLength, TailMinLength})

\* A text that reaches one of the limits is long.
LEMMA Shortest ==
  ASSUME TranscriptAssumption, NEW text, NEW n \in Nat, Len(text) \in Nat, n <= Len(text),
         n >= ShortFragmentMaxLength \/ n >= LongFinalMinLength \/ n >= TailMinLength
  PROVE  Long(text)
<1> DEFINE S == {ShortFragmentMaxLength, LongFinalMinLength, TailMinLength}
<1>1. S \in SUBSET Nat /\ S # {}
  BY DEF TranscriptAssumption
<1>2. PICK x \in S : n >= x
  OBVIOUS
<1> HIDE DEF S
<1>3. Min(S) \in S /\ Min(S) <= x
  BY <1>1, <1>2, Smallest
<1>4. Min(S) \in Nat /\ x \in Nat
  BY <1>1, <1>2, <1>3
<1>5. Len(text) >= Min(S)
  BY <1>2, <1>3, <1>4
<1> QED
  BY <1>5 DEF Long, S

\* What a message must hold after a text was merged into it.
Merges(T, text, incoming, C) ==
  /\ T \in Seq(C)
  /\ Includes(CompactText(T), CompactText(incoming))
  /\ \/ Includes(CompactText(T), CompactText(text))
     \/ Long(incoming)

\* Nothing is left of nothing.
LEMMA CompactOfNothing ==
  CompactText(<< >>) = << >>
<1>1. << >> \in Seq({}) /\ \A i \in DOMAIN << >> : << >>[i] = " "
  BY EmptySeq, EmptyList
<1> QED
  BY <1>1, CompactFacts

\* The end of a text is a text.
LEMMA TailFacts ==
  ASSUME TranscriptAssumption, NEW C, NEW text \in Seq(C)
  PROVE  CompactTail(text) \in Seq(C)
<1> DEFINE from == Max({1, Len(text) - CompactTailLength + 1})
<1>1. Len(text) \in Nat
  BY LenProperties
<1>2. CompactTailLength \in Nat
  BY DEF TranscriptAssumption
<1>3. from \in Int /\ from >= 1
  <2>1. Len(text) - CompactTailLength + 1 \in Int /\ 1 \in Int
    BY <1>1, <1>2
  <2>2. from = IF 1 < Len(text) - CompactTailLength + 1 THEN Len(text) - CompactTailLength + 1 ELSE 1
    BY <2>1, GreaterOf
  <2> HIDE DEF from
  <2> QED
    BY <1>1, <1>2, <2>2
<1>4. CompactTail(text) = SubSeq(text, from, Len(text))
  BY DEF CompactTail
<1> HIDE DEF from
<1>5. \A i \in from..Len(text) : i \in 1..Len(text)
  BY <1>1, <1>3
<1>6. \A i \in from..Len(text) : text[i] \in C
  BY <1>5, ElementOfSeq
<1>7. Len(text) \in Int
  BY <1>1
<1> QED
  BY <1>3, <1>4, <1>6, <1>7, SubSeqProperties

\* The one element of a sequence of length 1.
LEMMA OneElement ==
  ASSUME NEW x
  PROVE  \A i \in DOMAIN <<x>> : <<x>>[i] = x
<1>1. DOMAIN <<x>> = 1..1 /\ <<x>>[1] = x
  OBVIOUS
<1>2. \A i \in 1..1 : i = 1
  OBVIOUS
<1> QED
  BY <1>1, <1>2

\* Arithmetic, out of sight of the texts.
LEMMA Descending ==
  ASSUME NEW a \in Nat, NEW b \in Nat, NEW c \in Nat, NEW d \in Nat, a <= b, b <= c, c <= d
  PROVE  a <= d
OBVIOUS

\* A text joined to another one comes after it, and the space between them is of no account.
LEMMA JoinFacts ==
  ASSUME NEW C, " " \in C, NEW text \in Seq(C), NEW next \in Seq(C)
  PROVE  /\ JoinTextDelta(text, next) \in Seq(C)
         /\ CompactText(JoinTextDelta(text, next)) = CompactText(text) \o CompactText(next)
<1>1. CASE Head(next) = ","
  <2>1. JoinTextDelta(text, next) = text \o next
    BY <1>1 DEF JoinTextDelta
  <2>2. text \o next \in Seq(C)
    BY ConcatProperties
  <2>3. CompactText(text \o next) = CompactText(text) \o CompactText(next)
    BY CompactConcat
  <2> QED
    BY <2>1, <2>2, <2>3
<1>2. CASE Head(next) # ","
  <2>1. JoinTextDelta(text, next) = (text \o <<" ">>) \o next
    BY <1>2 DEF JoinTextDelta
  <2>2. <<" ">> \in Seq(C)
    BY OneChar
  <2>3. text \o <<" ">> \in Seq(C) /\ (text \o <<" ">>) \o next \in Seq(C)
    BY <2>2, Concats
  <2>4. CompactText(<<" ">>) = << >>
    <3>1. \A i \in DOMAIN <<" ">> : <<" ">>[i] = " "
      BY OneElement
    <3> QED
      BY <2>2, <3>1, CompactFacts
  <2>5. /\ CompactText((text \o <<" ">>) \o next) = CompactText(text \o <<" ">>) \o CompactText(next)
        /\ CompactText(text \o <<" ">>) = CompactText(text) \o CompactText(<<" ">>)
    BY <2>2, <2>3, CompactConcat
  <2>6. CompactText(text) \o << >> = CompactText(text)
    <3>1. CompactText(text) \in Seq(C)
      BY CompactFacts
    <3>2. \A s \in Seq(C) : s \o << >> = s
      BY ConcatEmptySeq
    <3> QED
      BY <3>1, <3>2, Zenon
  <2> QED
    BY <2>1, <2>3, <2>4, <2>5, <2>6
<1> QED
  BY <1>1, <1>2

\* A text is merged into a message: the message holds it, and what it held unless it is long.
LEMMA MergeTells ==
  ASSUME TranscriptAssumption, NEW C, " " \in C, NEW text \in Seq(C), NEW incoming \in Seq(C)
  PROVE  Merges(MergeAssistantTranscriptText(text, incoming), text, incoming, C)
<1> DEFINE next == Trim(incoming)
           T == MergeAssistantTranscriptText(text, incoming)
<1>1. next \in Seq(C) /\ Len(next) <= Len(incoming) /\ CompactText(next) = CompactText(incoming)
  BY TrimFacts
<1>2. /\ CompactText(text) \in Seq(C) /\ CompactText(next) \in Seq(C)
      /\ Len(CompactText(next)) <= Len(next)
  BY <1>1, CompactFacts
<1>3. T = IF next = << >> THEN text
          ELSE IF text = << >> THEN next
          ELSE IF ShouldKeepCurrent(text, next) THEN text
          ELSE IF ShouldReplaceWithIncoming(text, next) THEN next
          ELSE JoinTextDelta(text, next)
  BY DEF MergeAssistantTranscriptText
<1>4. /\ Includes(CompactText(text), CompactText(text)) /\ Includes(CompactText(text), << >>)
      /\ Includes(CompactText(next), CompactText(next)) /\ Includes(CompactText(next), << >>)
  BY <1>2, IncludesFacts
<1>5. Len(incoming) \in Nat /\ Len(next) \in Nat /\ Len(CompactText(next)) \in Nat
  BY <1>1, <1>2, LenProperties
<1> HIDE DEF next
<1> HIDE DEF T
<1> SUFFICES /\ T \in Seq(C)
             /\ Includes(CompactText(T), CompactText(next))
             /\ \/ Includes(CompactText(T), CompactText(text))
                \/ Long(incoming)
  BY <1>1 DEF Merges, T
<1>6. CASE next = << >>
  BY <1>3, <1>4, <1>6, CompactOfNothing
<1>7. CASE next # << >> /\ text = << >>
  BY <1>1, <1>3, <1>4, <1>7, CompactOfNothing
<1>8. CASE next # << >> /\ text # << >> /\ ShouldKeepCurrent(text, next)
  BY <1>3, <1>4, <1>8 DEF ShouldKeepCurrent
<1>9. CASE /\ next # << >> /\ text # << >> /\ ~ShouldKeepCurrent(text, next)
           /\ ShouldReplaceWithIncoming(text, next)
  <2>1. T = next
    BY <1>3, <1>9
  <2>2. Includes(CompactText(next), CompactText(text)) \/ Long(incoming)
    <3> DEFINE tail == CompactTail(CompactText(text))
    <3>1. ASSUME Len(tail) >= TailMinLength, Includes(CompactText(next), tail)
          PROVE  Long(incoming)
      <4>1. tail \in Seq(C)
        BY <1>2, TailFacts
      <4>2. Len(tail) <= Len(CompactText(next))
        BY <1>2, <3>1, <4>1, IncludesFacts
      <4>3. Len(tail) \in Nat
        BY <4>1, LenProperties
      <4> HIDE DEF tail
      <4>4. Len(tail) <= Len(incoming)
        <5>1. Len(CompactText(next)) <= Len(next) /\ Len(next) <= Len(incoming)
          BY <1>1, <1>2
        <5> QED
          BY <1>5, <4>2, <4>3, <5>1, Descending
      <4> QED
        BY <1>5, <3>1, <4>3, <4>4, Shortest
    <3>2. ASSUME Len(next) >= ShortFragmentMaxLength \/ Len(next) >= LongFinalMinLength
          PROVE  Long(incoming)
      BY <1>1, <1>5, <3>2, Shortest
    <3> QED
      BY <1>9, <3>1, <3>2 DEF ShouldReplaceWithIncoming
  <2> QED
    BY <1>1, <1>4, <2>1, <2>2
<1>10. CASE /\ next # << >> /\ text # << >> /\ ~ShouldKeepCurrent(text, next)
            /\ ~ShouldReplaceWithIncoming(text, next)
  <2>1. T = JoinTextDelta(text, next)
    BY <1>3, <1>10
  <2>2. T \in Seq(C) /\ CompactText(T) = CompactText(text) \o CompactText(next)
    BY <1>1, <2>1, JoinFacts
  <2>3. /\ Includes(CompactText(text) \o CompactText(next), CompactText(text))
        /\ Includes(CompactText(text) \o CompactText(next), CompactText(next))
    BY <1>2, IncludesFacts
  <2> QED
    BY <2>2, <2>3
<1> QED
  BY <1>6, <1>7, <1>8, <1>9, <1>10
----------------------------------------------------------------------------
(***************************************************************************)
(* What was heard of the runs, and what the transcript holds of it.        *)
(***************************************************************************)
\* What texts are made of; the space is named because JoinTextDelta inserts it.
Chars == STRING \cup {" "}

Texts == Seq(Chars)

\* A message holds every text that was heard, but for those given up for a later one.
Covered(text, heard) ==
  \A n \in DOMAIN heard :
    \/ Includes(CompactText(text), CompactText(heard[n]))
    \/ \E later \in (n + 1)..Len(heard) : Long(heard[later])

\* Nothing is missing of a run that was not heard.
LEMMA NothingHeard ==
  ASSUME NEW text
  PROVE  Covered(text, << >>)
BY EmptyList DEF Covered

\* A function that is run twice merges its text twice.
LEMMA MergesTwice ==
  ASSUME NEW C, NEW text \in Seq(C), NEW incoming \in Seq(C), NEW once, NEW twice,
         Merges(once, text, incoming, C), Merges(twice, once, incoming, C)
  PROVE  Merges(twice, text, incoming, C)
<1>1. once \in Seq(C) /\ twice \in Seq(C)
  BY DEF Merges
<1>2. /\ CompactText(text) \in Seq(C) /\ CompactText(once) \in Seq(C)
      /\ CompactText(twice) \in Seq(C)
  BY <1>1, CompactFacts
<1>3. CASE Long(incoming)
  BY <1>3 DEF Merges
<1>4. CASE ~Long(incoming)
  <2>1. /\ Includes(CompactText(twice), CompactText(once))
        /\ Includes(CompactText(once), CompactText(text))
    BY <1>4 DEF Merges
  <2>2. Includes(CompactText(twice), CompactText(text))
    BY <1>2, <2>1, IncludesFacts
  <2> QED
    BY <2>2 DEF Merges
<1> QED
  BY <1>3, <1>4

\* A message into which a text was merged holds what was heard until then and the text.
LEMMA CoveredMore ==
  ASSUME NEW text \in Texts, NEW heard \in Seq(Texts), NEW incoming \in Texts, NEW T,
         Merges(T, text, incoming, Chars), Covered(text, heard)
  PROVE  Covered(T, heard \o <<incoming>>)
<1> DEFINE longer == heard \o <<incoming>>
           N == Len(heard)
<1>1. IsList(heard) /\ N \in Nat /\ DOMAIN heard = 1..N
  BY ListOf
<1>2. /\ Len(longer) = N + 1 /\ DOMAIN longer = 1..(N + 1)
      /\ \A n \in 1..N : longer[n] = heard[n]
      /\ longer[N + 1] = incoming
  BY <1>1, Queued
<1>3. \A n \in 1..N : heard[n] \in Texts
  BY ElementOfSeq
<1>4. T \in Seq(Chars) /\ text \in Seq(Chars)
  BY DEF Merges, Texts
<1> HIDE DEF longer, N
<1>5. ASSUME NEW n \in 1..N
      PROVE  \/ Includes(CompactText(T), CompactText(longer[n]))
             \/ \E later \in (n + 1)..(N + 1) : Long(longer[later])
  <2>1. longer[n] = heard[n] /\ heard[n] \in Seq(Chars)
    BY <1>2, <1>3 DEF Texts
  <2>2. N + 1 \in (n + 1)..(N + 1) /\ \A later \in (n + 1)..N : later \in 1..N /\ later \in (n + 1)..(N + 1)
    BY <1>1
  <2>3. CASE \E later \in (n + 1)..N : Long(heard[later])
    BY <1>2, <2>2, <2>3
  <2>4. CASE Long(incoming)
    BY <1>2, <2>2, <2>4
  <2>5. CASE /\ Includes(CompactText(text), CompactText(heard[n]))
             /\ Includes(CompactText(T), CompactText(text))
    <3>1. /\ CompactText(text) \in Seq(Chars) /\ CompactText(T) \in Seq(Chars)
          /\ CompactText(heard[n]) \in Seq(Chars)
      BY <1>4, <2>1, CompactFacts
    <3>2. Includes(CompactText(T), CompactText(heard[n]))
      BY <2>5, <3>1, IncludesFacts
    <3> QED
      BY <2>1, <3>2
  <2>6. \/ Includes(CompactText(text), CompactText(heard[n]))
        \/ \E later \in (n + 1)..N : Long(heard[later])
    BY <1>1 DEF Covered, N
  <2>7. Includes(CompactText(T), CompactText(text)) \/ Long(incoming)
    BY DEF Merges
  <2> QED
    BY <2>3, <2>4, <2>5, <2>6, <2>7
<1>6. Includes(CompactText(T), CompactText(longer[N + 1]))
  BY <1>2 DEF Merges
<1>7. \A n \in 1..(N + 1) : n \in 1..N \/ n = N + 1
  BY <1>1
<1>8. \A n \in 1..(N + 1) : \/ Includes(CompactText(T), CompactText(longer[n]))
                            \/ \E later \in (n + 1)..(N + 1) : Long(longer[later])
  BY <1>5, <1>6, <1>7
<1>9. Covered(T, longer)
  BY <1>2, <1>8 DEF Covered
<1> QED
  BY <1>9 DEF longer

\* What the refs and the transcript must hold of what was heard, while run r is the last one;
\* nothing is asked about a run that another one overtook, its text may be in that one's message.
Told(content, r, others, heard) ==
  /\ r \in DOMAIN heard /\ r \notin others => Covered(content.assistant.text, heard[r])
  /\ \A i \in DOMAIN content.chat : Assistant(content.chat[i]) =>
       \A q \in content.chat[i].runs \ others : Covered(content.chat[i].text, heard[q])

\* One more text of a run is heard.
Hears(before, after, update) ==
  \A q \in Runs : after[q] = IF update.kind = "text" /\ update.run = q
                             THEN before[q] \o <<update.text>> ELSE before[q]

\* The function that adds text leaves text in its message.
Written(content, r, text) ==
  LET message(runs) == [id |-> MessageId(content), role |-> "assistant", runs |-> runs, text |-> text]
  IN  [assistant |-> [id |-> MessageId(content), text |-> text],
       chat |-> IF Found(content) = {} THEN LimitList(Append(content.chat, message({r})))
                ELSE [i \in DOMAIN content.chat |->
                        IF i \in Found(content) THEN message({r} \cup content.chat[i].runs)
                        ELSE content.chat[i]]]

\* What a function that adds text makes of the refs and the transcript, run once or twice.
LEMMA UpsertWrites ==
  ASSUME NEW content, NEW update, update.kind = "text", Numbered(content)
  PROVE  /\ Apply(content, update) = Written(content, update.run,
              MergeAssistantTranscriptText(content.assistant.text, update.text))
         /\ ApplyTwice(content, update) = Written(content, update.run,
              MergeAssistantTranscriptText(
                MergeAssistantTranscriptText(content.assistant.text, update.text), update.text))
<1> DEFINE T == MergeAssistantTranscriptText(content.assistant.text, update.text)
           again == [content EXCEPT !.assistant = Apply(content, update).assistant]
<1>1. \A c : Apply(c, update) = Written(c, update.run,
               MergeAssistantTranscriptText(c.assistant.text, update.text))
  BY DEF Apply, UpsertAssistantTranscript, Written, MessageId, Found
<1>2. /\ Apply(content, update).assistant.id = MessageId(content)
      /\ Apply(content, update).assistant.text = T
  <2>1. \A c, u, t : Written(c, u, t).assistant = [id |-> MessageId(c), text |-> t]
    BY DEF Written
  <2>2. Apply(content, update).assistant = [id |-> MessageId(content), text |-> T]
    BY <1>1, <2>1
  <2> QED
    BY <2>2
<1>3. again.assistant = Apply(content, update).assistant /\ again.chat = content.chat
  BY DEF Numbered
<1>4. MessageId(content) \in Nat \ {0}
  BY UpsertRefs
<1> HIDE DEF again, T
<1>5. MessageId(again) = MessageId(content)
  <2>1. again.assistant.id = MessageId(content) /\ MessageId(content) # 0
    BY <1>2, <1>3, <1>4
  <2>2. MessageId(again) = IF again.assistant.id = 0 THEN NewId(again) ELSE again.assistant.id
    BY DEF MessageId
  <2> QED
    BY <2>1, <2>2
<1>6. Found(again) = Found(content)
  BY <1>3, <1>5 DEF Found
<1>7. \A text : Written(again, update.run, text) = Written(content, update.run, text)
  BY <1>3, <1>5, <1>6 DEF Written
<1>8. ApplyTwice(content, update) = Apply(again, update)
  BY DEF ApplyTwice, again
<1> QED
  BY <1>1, <1>2, <1>3, <1>7, <1>8 DEF T

\* A message holds what was heard of each of its runs.
Holding(message, others, heard) ==
  Assistant(message) => \A q \in message.runs \ others : Covered(message.text, heard[q])

\* A message more, within the limit of the transcript.
LEMMA Grown ==
  ASSUME PageAssumption, NEW list, IsList(list), NEW message,
         NEW i \in DOMAIN LimitList(Append(list, message))
  PROVE  \/ LimitList(Append(list, message))[i] = message
         \/ \E j \in DOMAIN list : LimitList(Append(list, message))[i] = list[j]
<1> DEFINE X == {list[n] : n \in DOMAIN list} \cup {message}
           longer == Append(list, message)
<1>1. list \in Seq(X) /\ message \in X /\ Len(list) \in Nat /\ DOMAIN list = 1..Len(list)
  <2>1. list \in Seq({list[n] : n \in DOMAIN list})
    BY DEF IsList
  <2>2. \A n \in 1..Len(list) : list[n] \in X
    BY <2>1
  <2> QED
    BY <2>1
<1> HIDE DEF X
<1>2. /\ longer \in Seq(X) /\ Len(longer) = Len(list) + 1
      /\ \A n \in 1..Len(list) : longer[n] = list[n]
      /\ longer[Len(list) + 1] = message
  BY <1>1, AppendProperties
<1>3. IsList(longer) /\ DOMAIN longer = 1..(Len(list) + 1)
  BY <1>1, <1>2, ListOf
<1>4. \A n \in 1..(Len(list) + 1) : n \in 1..Len(list) \/ n = Len(list) + 1
  BY <1>1
<1> HIDE DEF longer
<1>5. PICK k \in Nat : \A n \in DOMAIN LimitList(longer) :
                        n + k \in DOMAIN longer /\ LimitList(longer)[n] = longer[n + k]
  BY <1>3, Limited
<1>6. i + k \in DOMAIN longer /\ LimitList(longer)[i] = longer[i + k]
  BY <1>5 DEF longer
<1>7. i + k \in 1..Len(list) \/ i + k = Len(list) + 1
  BY <1>3, <1>4, <1>6
<1>8. \/ LimitList(longer)[i] = message
      \/ \E j \in DOMAIN list : LimitList(longer)[i] = list[j]
  BY <1>1, <1>2, <1>6, <1>7
<1> QED
  BY <1>8 DEF longer

\* The message of the refs is written for run u: it has to hold what was heard of the last run by
\* then, and the other messages are as they were.
LEMMA WrittenTells ==
  ASSUME PageAssumption, NEW r \in Runs, NEW others, NEW content, Kept(content, r, others),
         NEW heard, Told(content, r, others, heard),
         NEW u \in 1..r, u \in {r} \cup others, NEW text,
         NEW after, DOMAIN after = Runs,
         \A q \in Runs : q # r /\ q \notin others => after[q] = heard[q],
         r \notin others => Covered(text, after[r])
  PROVE  Told(Written(content, u, text), r, others, after)
<1> DEFINE id == MessageId(content)
           list == content.chat
           found == Found(content)
           MessageWith(runs) == [id |-> id, role |-> "assistant", runs |-> runs, text |-> text]
           longer == LimitList(Append(list, MessageWith({u})))
           renewed == [i \in DOMAIN list |-> IF i \in found THEN MessageWith({u} \cup list[i].runs) ELSE list[i]]
           written == Written(content, u, text)
<1> SUFFICES Told(written, r, others, after)
  OBVIOUS
<1>1. IsList(list) /\ r \in Nat /\ \A q \in 1..r : q \in Runs
  <2>1. MaxRuns \in Nat
    BY Bounds
  <2> QED
    BY <2>1 DEF Kept, Numbered, Messages, Runs
<1>2. Arranged(list, id, r, others)
  BY <1>1, NumberKeeps
<1>3. \A i \in DOMAIN list : i \in found <=> list[i].id = id
  BY DEF Found
<1>4. \A runs : MessageWith(runs).runs = runs /\ MessageWith(runs).text = text
  OBVIOUS
<1>5. written.assistant.text = text /\ written.chat = IF found = {} THEN longer ELSE renewed
  <2>1. written = [assistant |-> [id |-> id, text |-> text], chat |-> IF found = {} THEN longer ELSE renewed]
    BY DEF Written
  <2> HIDE DEF written, longer, renewed, id
  <2> QED
    BY <2>1
<1>6. \A i \in DOMAIN list : Holding(list[i], others, heard)
  BY DEF Told, Holding
<1> HIDE DEF id, list, found, written
<1>7. \A i \in DOMAIN list : i \notin found => Holding(list[i], others, after)
  <2> SUFFICES ASSUME NEW i \in DOMAIN list, i \notin found, Assistant(list[i]),
                      NEW q \in list[i].runs \ others
               PROVE  Covered(list[i].text, after[q])
    BY DEF Holding
  <2>1. Holds(list[i], id, r, others) /\ list[i].id # id
    BY <1>2, <1>3 DEF Arranged
  <2>2. q # r /\ q \in 1..r
    BY <2>1 DEF Holds
  <2>3. after[q] = heard[q]
    BY <1>1, <2>2
  <2> QED
    BY <1>6, <2>3 DEF Holding
<1>8. \A runs : runs \subseteq {r} \cup others => Holding(MessageWith(runs), others, after)
  BY <1>4 DEF Holding
<1> HIDE DEF MessageWith
<1>9. CASE found = {}
  <2>1. written.chat = longer
    BY <1>5, <1>9
  <2>2. Holding(MessageWith({u}), others, after)
    BY <1>8
  <2>3. \A i \in DOMAIN longer : Holding(longer[i], others, after)
    <3> TAKE i \in DOMAIN longer
    <3>1. longer[i] = MessageWith({u}) \/ \E j \in DOMAIN list : longer[i] = list[j]
      BY <1>1, Grown
    <3> HIDE DEF longer
    <3> QED
      BY <1>7, <1>9, <2>2, <3>1
  <2> HIDE DEF longer
  <2> QED
    BY <1>5, <2>1, <2>3 DEF Told, Holding
<1>10. CASE found # {}
  <2>1. written.chat = renewed
    BY <1>5, <1>10
  <2>2. \A i \in DOMAIN renewed : Holding(renewed[i], others, after)
    <3> TAKE i \in DOMAIN renewed
    <3>1. i \in DOMAIN list
      OBVIOUS
    <3>2. CASE i \in found
      <4>1. renewed[i] = MessageWith({u} \cup list[i].runs)
        BY <3>1, <3>2
      <4>2. list[i].runs \subseteq {r} \cup others
        BY <1>2, <1>3, <3>1, <3>2 DEF Arranged, Holds
      <4>3. {u} \cup list[i].runs \subseteq {r} \cup others
        BY <4>2
      <4> QED
        BY <1>8, <4>1, <4>3
    <3>3. CASE i \notin found
      <4>1. renewed[i] = list[i]
        BY <3>1, <3>3
      <4> QED
        BY <1>7, <3>1, <3>3, <4>1
    <3> QED
      BY <3>2, <3>3
  <2> HIDE DEF renewed
  <2> QED
    BY <1>5, <2>1, <2>2 DEF Told, Holding
<1> QED
  BY <1>9, <1>10

\* What the operator or the page says leaves the agent's messages alone.
LEMMA SayTells ==
  ASSUME PageAssumption, NEW r, NEW others, NEW content, Kept(content, r, others),
         NEW heard, Told(content, r, others, heard), NEW update, update.kind = "say",
         update.role \in {"user", "system"}
  PROVE  /\ Told(Apply(content, update), r, others, heard)
         /\ Told(ApplyTwice(content, update), r, others, heard)
         /\ Apply(content, update).assistant = content.assistant
         /\ ApplyTwice(content, update).assistant = content.assistant
<1> DEFINE list == content.chat
           message == [id |-> NewId(content), role |-> update.role, runs |-> {update.run}, text |-> << >>]
           longer == LimitList(Append(list, message))
<1>1. content = [assistant |-> content.assistant, chat |-> list] /\ IsList(list)
  BY DEF Kept, Numbered, Messages
<1>2. Apply(content, update) = [assistant |-> content.assistant, chat |-> longer]
  <2>1. Apply(content, update) = [content EXCEPT !.chat = LimitList(Append(@, message))]
    BY DEF Apply
  <2> HIDE DEF message
  <2> QED
    BY <1>1, <2>1
<1>3. ~Assistant(message)
  BY DEF Assistant
<1>4. \A i \in DOMAIN longer : longer[i] = message \/ \E j \in DOMAIN list : longer[i] = list[j]
  <2> HIDE DEF message
  <2> QED
    BY <1>1, Grown
<1> HIDE DEF list, message, longer
<1>5. \A i \in DOMAIN list : Holding(list[i], others, heard)
  BY DEF Told, Holding, list
<1>6. \A i \in DOMAIN longer : Holding(longer[i], others, heard)
  BY <1>3, <1>4, <1>5 DEF Holding
<1>7. Apply(content, update).assistant = content.assistant /\ Apply(content, update).chat = longer
  BY <1>2
<1>8. Told(Apply(content, update), r, others, heard)
  BY <1>6, <1>7 DEF Told, Holding
<1>9. ApplyTwice(content, update) = Apply(content, update)
  <2>1. [content EXCEPT !.assistant = Apply(content, update).assistant] = content
    BY <1>1, <1>7
  <2> QED
    BY <2>1 DEF ApplyTwice
<1> QED
  BY <1>7, <1>8, <1>9

\* A function that waits has a text if it adds one.
Worded(update) == update.kind = "text" => update.text \in Texts

\* What React may make of one function: strict mode runs it twice.
Steps(content, update) == {Apply(content, update), ApplyTwice(content, update)}

\* The texts that were heard, run by run.
Hearings == [Runs -> Seq(Texts)]

\* After one function, run once or twice, the transcript holds its text too.
LEMMA StepTells ==
  ASSUME PageAssumption, TranscriptAssumption, NEW r \in Runs, NEW others, NEW content,
         Kept(content, r, others), content.assistant.text \in Texts,
         NEW heard \in Hearings, Told(content, r, others, heard),
         NEW update, Fits(update, r, others), Worded(update),
         update.kind = "text" /\ update.run # r => heard[r] = << >>,
         NEW after \in Hearings, Hears(heard, after, update),
         NEW next \in Steps(content, update)
  PROVE  /\ Kept(next, r, others)
         /\ next.assistant.text \in Texts
         /\ Told(next, r, others, after)
<1>1. Kept(next, r, others)
  <2>1. r \in Nat
    BY Bounds DEF Runs
  <2> QED
    BY <2>1, ApplyKeeps, ApplyTwiceKeeps DEF Steps
<1>2. /\ Numbered(content) /\ DOMAIN heard = Runs /\ DOMAIN after = Runs
      /\ \A q \in Runs : heard[q] \in Seq(Texts)
  BY DEF Kept, Hearings
<1>3. CASE update.kind = "text"
  <2> DEFINE text == content.assistant.text
             once == MergeAssistantTranscriptText(text, update.text)
             twice == MergeAssistantTranscriptText(once, update.text)
  <2>1. /\ text \in Seq(Chars) /\ update.text \in Seq(Chars) /\ " " \in Chars
        /\ update.run \in 1..r /\ update.run \in {r} \cup others
    BY <1>3 DEF Worded, Fits, Texts, Chars
  <2> HIDE DEF text
  <2>2. Merges(once, text, update.text, Chars)
    BY <2>1, MergeTells
  <2>3. Merges(twice, once, update.text, Chars)
    <3>1. once \in Seq(Chars)
      BY <2>2 DEF Merges
    <3> HIDE DEF once
    <3> QED
      BY <2>1, <3>1, MergeTells
  <2> HIDE DEF once, twice
  <2>4. Merges(twice, text, update.text, Chars)
    BY <2>1, <2>2, <2>3, MergesTwice
  <2>5. PICK T : next = Written(content, update.run, T) /\ Merges(T, text, update.text, Chars)
    <3>1. /\ Apply(content, update) = Written(content, update.run, once)
          /\ ApplyTwice(content, update) = Written(content, update.run, twice)
      BY <1>2, <1>3, UpsertWrites DEF once, twice, text
    <3> QED
      BY <2>2, <2>4, <3>1 DEF Steps
  <2>6. T \in Texts
    BY <2>5 DEF Merges, Texts
  <2>7. next.assistant.text = T
    BY <2>5 DEF Written
  <2>8. ASSUME r \notin others
        PROVE  Covered(T, after[r])
    <3>1. CASE update.run = r
      <4>1. Covered(text, heard[r])
        BY <1>2, <2>8 DEF Told, text
      <4>2. after[r] = heard[r] \o <<update.text>>
        BY <1>3, <3>1 DEF Hears
      <4>3. text \in Texts /\ update.text \in Texts /\ heard[r] \in Seq(Texts)
        BY <1>2, <2>1 DEF Texts
      <4> QED
        BY <2>5, <4>1, <4>2, <4>3, CoveredMore
    <3>2. CASE update.run # r
      <4>1. after[r] = << >>
        BY <1>3, <3>2 DEF Hears
      <4> QED
        BY <4>1, NothingHeard
    <3> QED
      BY <3>1, <3>2
  <2>9. \A q \in Runs : q # r /\ q \notin others => after[q] = heard[q]
    BY <2>1 DEF Hears
  <2>10. Told(next, r, others, after)
    BY <1>2, <2>1, <2>5, <2>8, <2>9, WrittenTells
  <2> QED
    BY <1>1, <2>6, <2>7, <2>10
<1>4. CASE update.kind = "say"
  <2>1. update.role \in {"user", "system"} /\ update.kind # "text"
    BY <1>4 DEF Fits
  <2>2. after = heard
    <3>1. \A q \in Runs : after[q] = heard[q]
      BY <2>1 DEF Hears
    <3> QED
      BY <3>1 DEF Hearings
  <2> QED
    BY <1>1, <1>4, <2>1, <2>2, SayTells DEF Steps
<1> QED
  BY <1>3, <1>4 DEF Fits

\* What was heard after the first n functions of a queue.
IsHearing(h, queue, heard) ==
  /\ h[0] = heard
  /\ \A n \in 0..Len(queue) : h[n] \in Hearings
  /\ \A n \in 1..Len(queue) : Hears(h[n - 1], h[n], queue[n])
  /\ \A q \in Runs : h[Len(queue)][q] = heard[q] \o TextsOf(q, queue)

\* What is heard while a queue is run can be told function by function.
LEMMA Hearing ==
  ASSUME NEW queue, IsList(queue), \A n \in DOMAIN queue : Worded(queue[n]),
         NEW heard \in Hearings
  PROVE  \E h : IsHearing(h, queue, heard)
<1> DEFINE N == Len(queue)
           pieces(q) == [i \in DOMAIN queue |->
             IF queue[i].kind = "text" /\ queue[i].run = q THEN <<queue[i].text>> ELSE << >>]
           Flat(g, q) == IsFlattening(g, pieces(q)) /\ TextsOf(q, queue) = g[N]
           G == [q \in Runs |-> CHOOSE g \in [0..N -> Seq(Texts)] : Flat(g, q)]
           h == [n \in 0..N |-> [q \in Runs |-> heard[q] \o G[q][n]]]
<1>1. N \in Nat /\ DOMAIN queue = 1..N
  BY DEF IsList
<1>2. \A q : TextsOf(q, queue) = FlattenSeq(pieces(q))
  BY DEF TextsOf
<1>3. \A q : \A i \in DOMAIN queue : pieces(q)[i] =
        IF queue[i].kind = "text" /\ queue[i].run = q THEN <<queue[i].text>> ELSE << >>
  OBVIOUS
<1>4. \A q : pieces(q) \in Seq(Seq(Texts)) /\ Len(pieces(q)) = N
  <2> TAKE q
  <2>1. \A i \in 1..N : pieces(q)[i] \in Seq(Texts)
    <3> TAKE i \in 1..N
    <3>1. << >> \in Seq(Texts)
      BY EmptySeq
    <3>2. queue[i].kind = "text" => <<queue[i].text>> \in Seq(Texts)
      <4>1. queue[i].kind = "text" => queue[i].text \in Texts
        BY <1>1 DEF Worded
      <4> QED
        BY <4>1, OneChar
    <3>3. pieces(q)[i] = IF queue[i].kind = "text" /\ queue[i].run = q THEN <<queue[i].text>> ELSE << >>
      BY <1>1
    <3> HIDE DEF pieces
    <3>4. CASE queue[i].kind = "text" /\ queue[i].run = q
      BY <3>2, <3>3, <3>4
    <3>5. CASE ~(queue[i].kind = "text" /\ queue[i].run = q)
      BY <3>1, <3>3, <3>5
    <3> QED
      BY <3>4, <3>5
  <2>2. pieces(q) = [i \in 1..N |-> pieces(q)[i]]
    BY <1>1
  <2> HIDE DEF pieces
  <2> QED
    BY <1>1, <2>1, <2>2, MappedList
<1> HIDE DEF N, pieces
<1>5. \A q : \E g \in [0..N -> Seq(Texts)] : Flat(g, q)
  BY <1>2, <1>4, Flattening
<1>6. \A q \in Runs : G[q] \in [0..N -> Seq(Texts)] /\ Flat(G[q], q)
  <2> HIDE DEF Flat
  <2> QED
    BY <1>5
<1>7. \A q \in Runs : /\ G[q][0] = << >>
                      /\ \A n \in 1..N : G[q][n] = G[q][n - 1] \o pieces(q)[n]
                      /\ TextsOf(q, queue) = G[q][N]
                      /\ \A n \in 0..N : G[q][n] \in Seq(Texts)
  <2> TAKE q \in Runs
  <2>1. G[q] \in [0..N -> Seq(Texts)] /\ Flat(G[q], q)
    BY <1>6
  <2> HIDE DEF G
  <2> QED
    BY <1>4, <2>1 DEF IsFlattening
<1> HIDE DEF G
<1>8. /\ \A n \in 0..N : \A q \in Runs : h[n][q] = heard[q] \o G[q][n]
      /\ \A q \in Runs : heard[q] \in Seq(Texts)
      /\ 0 \in 0..N /\ N \in 0..N /\ \A n \in 1..N : n \in 0..N /\ n - 1 \in 0..N
  BY <1>1 DEF Hearings
<1>9. \A n \in 0..N : h[n] \in Hearings
  <2> TAKE n \in 0..N
  <2>1. \A q \in Runs : heard[q] \o G[q][n] \in Seq(Texts)
    BY <1>7, <1>8, Concats
  <2>2. h[n] = [q \in Runs |-> heard[q] \o G[q][n]]
    OBVIOUS
  <2> QED
    BY <2>1, <2>2 DEF Hearings
<1>10. h[0] = heard
  <2>1. \A q \in Runs : h[0][q] = heard[q]
    <3> TAKE q \in Runs
    <3>1. h[0][q] = heard[q] \o G[q][0]
      BY <1>8
    <3>2. G[q][0] = << >> /\ heard[q] \in Seq(Texts)
      BY <1>7, <1>8
    <3>3. heard[q] \o << >> = heard[q]
      BY <3>2, ConcatEmptySeq
    <3> HIDE DEF h
    <3> QED
      BY <3>1, <3>2, <3>3
  <2>2. h[0] \in Hearings
    BY <1>8, <1>9
  <2> HIDE DEF h
  <2> QED
    BY <2>1, <2>2 DEF Hearings
<1> HIDE DEF h
<1>11. \A n \in 1..N : Hears(h[n - 1], h[n], queue[n])
  <2> SUFFICES ASSUME NEW n \in 1..N, NEW q \in Runs
               PROVE  h[n][q] = IF queue[n].kind = "text" /\ queue[n].run = q
                                THEN h[n - 1][q] \o <<queue[n].text>> ELSE h[n - 1][q]
    BY DEF Hears
  <2>1. /\ heard[q] \in Seq(Texts) /\ G[q][n - 1] \in Seq(Texts) /\ pieces(q)[n] \in Seq(Texts)
        /\ h[n - 1][q] = heard[q] \o G[q][n - 1]
        /\ h[n][q] = heard[q] \o (G[q][n - 1] \o pieces(q)[n])
    <3>1. pieces(q)[n] \in Seq(Texts)
      BY <1>4, ElementOfSeq
    <3> QED
      BY <1>7, <1>8, <3>1
  <2>2. h[n][q] = h[n - 1][q] \o pieces(q)[n]
    <3>1. Associates(heard[q], G[q][n - 1], pieces(q)[n])
      BY <2>1, Associate
    <3> QED
      BY <2>1, <3>1 DEF Associates
  <2>3. h[n - 1][q] \in Seq(Texts)
    BY <2>1, Concats
  <2>4. h[n - 1][q] \o << >> = h[n - 1][q]
    BY <2>3, Concats
  <2> QED
    BY <1>1, <1>3, <2>2, <2>4 DEF pieces
<1>12. \A q \in Runs : h[N][q] = heard[q] \o TextsOf(q, queue)
  BY <1>7, <1>8
<1>13. IsHearing(h, queue, heard)
  BY <1>9, <1>10, <1>11, <1>12 DEF IsHearing, N
<1> QED
  BY <1>13

\* The texts that wait are all of the last run, or none is and nothing was heard of it.
OfOne(queue, r, heard) ==
  \/ \A n \in DOMAIN queue : queue[n].kind = "text" => queue[n].run = r
  \/ heard[r] = << >> /\ \A n \in DOMAIN queue : queue[n].kind = "text" => queue[n].run # r

\* So does the transcript after each function of a queue.
LEMMA FoldingTells ==
  ASSUME PageAssumption, TranscriptAssumption, NEW r \in 0..MaxRuns, NEW others,
         NEW queue, IsList(queue),
         \A n \in DOMAIN queue : Fits(queue[n], r, others) /\ Worded(queue[n]),
         NEW refs, refs.text \in Texts, NEW messages,
         Kept([assistant |-> refs, chat |-> messages], r, others),
         NEW heard \in Hearings, OfOne(queue, r, heard),
         Told([assistant |-> refs, chat |-> messages], r, others, heard),
         NEW twice \in BOOLEAN, NEW f, IsFolding(f, queue, refs, messages, twice),
         NEW h, IsHearing(h, queue, heard)
  PROVE  /\ f[Len(queue)].assistant.text \in Texts
         /\ Told(f[Len(queue)], r, others, h[Len(queue)])
<1> DEFINE N == Len(queue)
           Silent == heard[r] = << >> /\ \A n \in DOMAIN queue : queue[n].kind = "text" => queue[n].run # r
           Good(n) == /\ Kept(f[n], r, others)
                      /\ f[n].assistant.text \in Texts
                      /\ Told(f[n], r, others, h[n])
                      /\ Silent => h[n][r] = << >>
           S == {n \in 0..N : Good(n)}
<1>1. N \in Nat /\ DOMAIN queue = 1..N
  BY DEF IsList
<1>2. /\ h[0] = heard
      /\ \A n \in 0..N : h[n] \in Hearings
      /\ \A n \in 1..N : Hears(h[n - 1], h[n], queue[n])
  BY DEF IsHearing
<1>3. /\ f[0] = [assistant |-> refs, chat |-> messages]
      /\ \A n \in 1..N : f[n] \in Steps(f[n - 1], queue[n])
  BY DEF IsFolding, Steps
<1>4. OfOne(queue, r, heard) => Silent \/ \A n \in DOMAIN queue : queue[n].kind = "text" => queue[n].run = r
  BY DEF OfOne
<1>5. Silent => heard[r] = << >> /\ \A n \in DOMAIN queue : queue[n].kind = "text" => queue[n].run # r
  OBVIOUS
<1> HIDE DEF N, Silent
<1>6. Good(0)
  <2>1. f[0].assistant = refs
    BY <1>3
  <2> QED
    BY <1>2, <1>3, <1>5, <2>1
<1>7. ASSUME NEW n \in 1..N, Good(n - 1)
      PROVE  Good(n)
  <2>1. /\ Fits(queue[n], r, others) /\ Worded(queue[n])
        /\ h[n - 1] \in Hearings /\ h[n] \in Hearings /\ Hears(h[n - 1], h[n], queue[n])
        /\ f[n] \in Steps(f[n - 1], queue[n])
    <3>1. n \in 0..N /\ n - 1 \in 0..N
      BY <1>1
    <3> QED
      BY <1>1, <1>2, <1>3, <3>1
  <2>2. r \in Runs
    <3>1. queue[n].run \in 1..r /\ MaxRuns \in Nat
      BY <2>1, Bounds DEF Fits
    <3> QED
      BY <3>1 DEF Runs
  <2>3. queue[n].kind = "text" /\ queue[n].run # r => h[n - 1][r] = << >>
    BY <1>1, <1>4, <1>7
  <2>4. /\ Kept(f[n], r, others)
        /\ f[n].assistant.text \in Texts
        /\ Told(f[n], r, others, h[n])
    BY <1>7, <2>1, <2>2, <2>3, StepTells
  <2>5. Silent => h[n][r] = << >>
    <3>1. h[n][r] = IF queue[n].kind = "text" /\ queue[n].run = r
                    THEN h[n - 1][r] \o <<queue[n].text>> ELSE h[n - 1][r]
      BY <2>1, <2>2 DEF Hears
    <3>2. Silent => ~(queue[n].kind = "text" /\ queue[n].run = r) /\ h[n - 1][r] = << >>
      BY <1>1, <1>7, <1>5
    <3> QED
      BY <3>1, <3>2
  <2> QED
    BY <2>4, <2>5
<1> HIDE DEF Good
<1>8. 0 \in S
  <2>1. 0 \in 0..N
    BY <1>1
  <2> QED
    BY <1>6, <2>1
<1>9. \A n \in 1..N : n - 1 \in S => n \in S
  <2> TAKE n \in 1..N
  <2>1. HAVE n - 1 \in S
  <2>2. n \in 0..N /\ Good(n - 1)
    BY <1>1, <2>1
  <2>3. Good(n)
    BY <1>7, <2>2
  <2> QED
    BY <2>2, <2>3
<1>10. N \in S
  <2>1. 0..N \subseteq S
    <3> HIDE DEF S
    <3> QED
      BY <1>1, <1>8, <1>9, InductUpTo
  <2>2. N \in 0..N
    BY <1>1
  <2> QED
    BY <2>1, <2>2
<1>11. Good(N)
  BY <1>10
<1> QED
  BY <1>11 DEF Good, N

\* What is heard once a queue has been run.
HeardOf(heard, queue) == [q \in Runs |-> heard[q] \o TextsOf(q, queue)]

\* Whatever a rendering makes of a queue holds what is heard by then.
LEMMA ContentsTell ==
  ASSUME PageAssumption, TranscriptAssumption, NEW r \in 0..MaxRuns, NEW others,
         NEW queue, IsList(queue),
         \A n \in DOMAIN queue : Fits(queue[n], r, others) /\ Worded(queue[n]),
         NEW refs, refs.text \in Texts, Kept([assistant |-> refs, chat |-> chat], r, others),
         NEW heard \in Hearings, OfOne(queue, r, heard),
         Told([assistant |-> refs, chat |-> chat], r, others, heard),
         NEW content \in Contents(queue, refs)
  PROVE  /\ content.assistant.text \in Texts
         /\ Told(content, r, others, HeardOf(heard, queue))
         /\ HeardOf(heard, queue) \in Hearings
<1>1. PICK twice \in BOOLEAN : content = Content(queue, refs, twice)
  BY DEF Contents
<1>2. Len(queue) \in Nat
  BY DEF IsList
<1>3. PICK f : IsFolding(f, queue, refs, chat, twice) /\ Content(queue, refs, twice) = f[Len(queue)]
  BY <1>2, Folding
<1>4. PICK h : IsHearing(h, queue, heard)
  BY Hearing
<1>5. h[Len(queue)] = HeardOf(heard, queue) /\ h[Len(queue)] \in Hearings
  <2>1. Len(queue) \in 0..Len(queue)
    BY <1>2
  <2>2. h[Len(queue)] \in Hearings /\ \A q \in Runs : h[Len(queue)][q] = heard[q] \o TextsOf(q, queue)
    BY <1>4, <2>1 DEF IsHearing
  <2> QED
    BY <2>2 DEF HeardOf, Hearings
<1>6. f[Len(queue)].assistant.text \in Texts /\ Told(f[Len(queue)], r, others, h[Len(queue)])
  BY <1>3, <1>4, FoldingTells
<1> QED
  BY <1>1, <1>3, <1>5, <1>6

\* Refs with a text, whatever is done with the transcript.
Typed(content) ==
  content = [assistant |-> content.assistant, chat |-> content.chat] /\ content.assistant.text \in Texts

\* A function leaves refs with a text.
LEMMA ApplyTyped ==
  ASSUME TranscriptAssumption, NEW content, Typed(content), NEW update, Worded(update),
         update.kind \in {"text", "say", "reset"}
  PROVE  Typed(Apply(content, update))
<1>1. CASE update.kind = "text"
  <2> DEFINE T == MergeAssistantTranscriptText(content.assistant.text, update.text)
             after == UpsertAssistantTranscript(content, update.run, update.text)
  <2>1. content.assistant.text \in Seq(Chars) /\ update.text \in Seq(Chars) /\ " " \in Chars
    BY <1>1 DEF Typed, Worded, Texts, Chars
  <2>2. T \in Seq(Chars)
    BY <2>1, MergeTells DEF Merges
  <2>3. Apply(content, update) = after
    BY <1>1 DEF Apply
  <2>4. after = [assistant |-> after.assistant, chat |-> after.chat] /\ after.assistant.text = T
    BY DEF UpsertAssistantTranscript
  <2> HIDE DEF after, T
  <2> QED
    BY <2>2, <2>3, <2>4 DEF Typed, Texts
<1>2. CASE update.kind \in {"say", "reset"}
  <2>1. PICK list : Apply(content, update) = [content EXCEPT !.chat = list]
    BY <1>2 DEF Apply
  <2>2. [content EXCEPT !.chat = list] = [assistant |-> content.assistant, chat |-> list]
    BY DEF Typed
  <2> QED
    BY <2>1, <2>2 DEF Typed
<1> QED
  BY <1>1, <1>2

\* A rendering leaves refs with a text.
LEMMA ContentsTyped ==
  ASSUME TranscriptAssumption, NEW queue, IsList(queue),
         \A n \in DOMAIN queue : Worded(queue[n]) /\ queue[n].kind \in {"text", "say", "reset"},
         NEW refs, refs.text \in Texts, NEW content \in Contents(queue, refs)
  PROVE  content.assistant.text \in Texts
<1> DEFINE N == Len(queue)
<1>1. PICK twice \in BOOLEAN : content = Content(queue, refs, twice)
  BY DEF Contents
<1>2. N \in Nat /\ DOMAIN queue = 1..N
  BY DEF IsList
<1>3. PICK f : IsFolding(f, queue, refs, chat, twice) /\ Content(queue, refs, twice) = f[N]
  BY <1>2, Folding
<1> DEFINE S == {n \in 0..N : Typed(f[n])}
<1>4. 0 \in S
  <2>1. f[0] = [assistant |-> refs, chat |-> chat]
    BY <1>3 DEF IsFolding
  <2>2. Typed(f[0])
    BY <2>1 DEF Typed
  <2> HIDE DEF N
  <2>3. 0 \in 0..N
    BY <1>2
  <2> QED
    BY <2>2, <2>3
<1>5. \A n \in 1..N : n - 1 \in S => n \in S
  <2> TAKE n \in 1..N
  <2>1. HAVE n - 1 \in S
  <2> DEFINE before == f[n - 1]
             again == [before EXCEPT !.assistant = Apply(before, queue[n]).assistant]
  <2>2. Typed(before)
    BY <2>1
  <2>3. Worded(queue[n]) /\ queue[n].kind \in {"text", "say", "reset"}
    BY <1>2
  <2>4. Typed(Apply(before, queue[n]))
    <3> HIDE DEF before
    <3> QED
      BY <2>2, <2>3, ApplyTyped
  <2>5. Typed(again)
    <3> HIDE DEF before
    <3>1. again = [assistant |-> Apply(before, queue[n]).assistant, chat |-> before.chat]
      BY <2>2 DEF Typed
    <3> QED
      BY <2>4, <3>1 DEF Typed
  <2>6. Typed(ApplyTwice(before, queue[n]))
    <3>1. ApplyTwice(before, queue[n]) = Apply(again, queue[n])
      BY DEF ApplyTwice
    <3> HIDE DEF again, before
    <3> QED
      BY <2>3, <2>5, <3>1, ApplyTyped
  <2>7. f[n] = ApplyTwice(before, queue[n]) \/ f[n] = Apply(before, queue[n])
    BY <1>3 DEF IsFolding
  <2> HIDE DEF before, N
  <2>8. n \in 0..N
    BY <1>2
  <2> QED
    BY <2>4, <2>6, <2>7, <2>8
<1>6. N \in S
  <2> HIDE DEF N, S
  <2>1. 0..N \subseteq S
    BY <1>2, <1>4, <1>5, InductUpTo
  <2>2. N \in 0..N
    BY <1>2
  <2> QED
    BY <2>1, <2>2
<1>7. Typed(f[N])
  BY <1>6
<1> QED
  BY <1>1, <1>3, <1>7 DEF Typed

\* No texts of a run.
LEMMA NoTexts ==
  ASSUME NEW queue, IsList(queue), NEW q,
         \A n \in DOMAIN queue : ~(queue[n].kind = "text" /\ queue[n].run = q)
  PROVE  TextsOf(q, queue) = << >>
<1> DEFINE pieces == [i \in DOMAIN queue |->
             IF queue[i].kind = "text" /\ queue[i].run = q THEN <<queue[i].text>> ELSE << >>]
<1>1. TextsOf(q, queue) = FlattenSeq(pieces)
  BY DEF TextsOf
<1>2. pieces = [i \in DOMAIN queue |-> pieces[i]] /\ \A i \in DOMAIN queue : pieces[i] = << >>
  OBVIOUS
<1> HIDE DEF pieces
<1>3. IsList(pieces) /\ DOMAIN pieces = DOMAIN queue
  BY <1>2, MadeList
<1>4. \A i \in DOMAIN pieces : IsList(pieces[i]) /\ ToSet(pieces[i]) = {}
  BY <1>2, <1>3, SmallLists
<1>5. /\ IsList(FlattenSeq(pieces))
      /\ ToSet(FlattenSeq(pieces)) = UNION {ToSet(pieces[i]) : i \in DOMAIN pieces}
  BY <1>3, <1>4, FlattenLists
<1>6. ToSet(FlattenSeq(pieces)) = {}
  BY <1>4, <1>5
<1>7. FlattenSeq(pieces) = << >>
  <2> DEFINE s == FlattenSeq(pieces)
  <2>1. s \in Seq({s[i] : i \in DOMAIN s}) /\ {s[i] : i \in DOMAIN s} = {}
    BY <1>5, <1>6 DEF IsList, ToSet
  <2> HIDE DEF s
  <2>2. s \in Seq({})
    BY <2>1
  <2>3. s = << >>
    BY <2>2, EmptySeq, LenProperties, ElementOfSeq
  <2> QED
    BY <2>3 DEF s
<1> QED
  BY <1>1, <1>7

----------------------------------------------------------------------------
(***************************************************************************)
(* What every step keeps of the texts.                                     *)
(***************************************************************************)
\* What was heard, what waits to be said or rendered, and what the transcript holds of it.
SaidInv ==
  /\ said \in Hearings
  /\ \A q \in Runs : q > started => said[q] = << >>
  /\ assistant.text \in Texts
  /\ \A n \in DOMAIN updates : Worded(updates[n])
  /\ \A frame \in ToSet(wire) : frame.kind = "text" => frame.value \in Texts
  /\ Told([assistant |-> assistant, chat |-> chat], started, overtaken, said)

\* The page without texts.
LEMMA NothingSaid ==
  /\ << >> \in Texts /\ NoMessage.text \in Texts
  /\ [q \in Runs |-> << >>] \in Hearings
  /\ \A n \in DOMAIN << >> : Worded(<< >>[n])
  /\ \A frame \in ToSet(<< >>) : frame.kind = "text" => frame.value \in Texts
  /\ \A refs, r, others : Told([assistant |-> refs, chat |-> << >>], r, others, [q \in Runs |-> << >>])
<1>1. << >> \in Texts /\ NoMessage.text \in Texts
  BY EmptySeq DEF Texts, NoMessage
<1>2. [q \in Runs |-> << >>] \in Hearings
  BY EmptySeq DEF Hearings
<1>3. /\ \A n \in DOMAIN << >> : Worded(<< >>[n])
      /\ \A frame \in ToSet(<< >>) : frame.kind = "text" => frame.value \in Texts
  BY EmptyList, SmallLists
<1>4. ASSUME NEW refs, NEW r, NEW others
      PROVE  Told([assistant |-> refs, chat |-> << >>], r, others, [q \in Runs |-> << >>])
  <2> DEFINE content == [assistant |-> refs, chat |-> << >>]
             heard == [q \in Runs |-> << >>]
  <2>1. content.chat = << >> /\ DOMAIN content.chat = {}
    BY EmptyList
  <2>2. \A q \in DOMAIN heard : heard[q] = << >>
    OBVIOUS
  <2> HIDE DEF content, heard
  <2>3. Told(content, r, others, heard)
    BY <2>1, <2>2, NothingHeard DEF Told
  <2> QED
    BY <2>3 DEF content, heard
<1> QED
  BY <1>1, <1>2, <1>3, <1>4

\* Init, and one lemma for each action that touches what the invariant is about.
LEMMA InitTells ==
  ASSUME Init
  PROVE  SaidInv
<1>1. /\ assistant = NoMessage /\ updates = << >> /\ wire = << >> /\ chat = << >>
      /\ said = [r \in Runs |-> << >>]
  BY DEF Init
<1>2. \A q \in Runs : said[q] = << >>
  BY <1>1
<1> QED
  BY <1>1, <1>2, NothingSaid DEF SaidInv

\* What is rendered has been said.
LEMMA RenderedTells ==
  ASSUME NEW content, NEW queue, NEW r, NEW others,
         HeardOf(said, queue) \in Hearings, Told(content, r, others, HeardOf(said, queue)),
         said' = [q \in Runs |-> IF content.chat = << >> THEN << >> ELSE said[q] \o TextsOf(q, queue)]
  PROVE  said' \in Hearings /\ Told([assistant |-> content.assistant, chat |-> content.chat], r, others, said')
<1>1. CASE content.chat = << >>
  <2>1. said' = [q \in Runs |-> << >>]
    BY <1>1
  <2> QED
    BY <1>1, <2>1, NothingSaid
<1>2. CASE content.chat # << >>
  <2>1. said' = HeardOf(said, queue)
    BY <1>2 DEF HeardOf
  <2> DEFINE rendered == [assistant |-> content.assistant, chat |-> content.chat]
  <2>2. rendered.assistant = content.assistant /\ rendered.chat = content.chat
    OBVIOUS
  <2> HIDE DEF rendered
  <2>3. Told(rendered, r, others, said')
    BY <2>1, <2>2 DEF Told
  <2> QED
    BY <2>1, <2>3 DEF rendered
<1> QED
  BY <1>1, <1>2

\* A run without texts in the queue is as silent after a rendering as before it.
LEMMA Unsaid ==
  ASSUME NEW queue, IsList(queue), NEW content, NEW q \in Runs, said[q] = << >>,
         \A n \in DOMAIN queue : ~(queue[n].kind = "text" /\ queue[n].run = q),
         said' = [s \in Runs |-> IF content.chat = << >> THEN << >> ELSE said[s] \o TextsOf(s, queue)]
  PROVE  said'[q] = << >>
<1>1. TextsOf(q, queue) = << >>
  BY NoTexts
<1>2. << >> \o << >> = << >>
  BY Concats
<1>3. said'[q] = IF content.chat = << >> THEN << >> ELSE said[q] \o TextsOf(q, queue)
  OBVIOUS
<1> QED
  BY <1>1, <1>2, <1>3

\* A new run renders what waits and starts with refs of its own, silent.
LEMMA RunTells ==
  ASSUME PageAssumption, TranscriptAssumption, IInv, SaidInv, Run
  PROVE  SaidInv'
<1> DEFINE r == started + 1
           more == overtaken'
           queue == updates \o Say(r, "user")
           empty == [assistant |-> NoMessage, chat |-> chat]
<1>1. /\ started \in Nat /\ r \in Runs /\ r \in 0..MaxRuns
      /\ overtaken \subseteq more /\ more \subseteq 1..started
      /\ IsList(queue) /\ Len(queue) \in Nat /\ DOMAIN queue = 1..Len(queue)
      /\ \A n \in DOMAIN queue : (n \in DOMAIN updates /\ queue[n] = updates[n]) \/ queue[n].kind = "say"
      /\ \A n \in DOMAIN queue : Fits(queue[n], r, more)
      /\ Kept(empty, r, more)
  BY RunQueue
<1>2. PICK content \in Contents(queue, NoMessage) :
        /\ assistant' = content.assistant /\ chat' = content.chat /\ updates' = << >>
        /\ said' = [q \in Runs |-> IF content.chat = << >> THEN << >> ELSE said[q] \o TextsOf(q, queue)]
  BY DEF Run, SendPrompt, Rendered
<1>3. started' = r /\ wire' = << >>
  BY DEF Run, SendPrompt
<1>4. /\ said \in Hearings /\ \A q \in Runs : q > started => said[q] = << >>
      /\ \A n \in DOMAIN updates : Worded(updates[n])
      /\ Told([assistant |-> assistant, chat |-> chat], started, overtaken, said)
  BY DEF SaidInv
<1>5. said[r] = << >> /\ r > started /\ r # started /\ \A q \in 1..started : q # r
  BY <1>1, <1>4
<1>6. empty.assistant = NoMessage /\ empty.chat = chat
  OBVIOUS
<1> HIDE DEF r, more, queue, empty
<1>7. Told(empty, r, more, said)
  <2> DEFINE old == [assistant |-> assistant, chat |-> chat]
  <2>1. old.chat = chat /\ Told(old, started, overtaken, said)
    BY <1>4
  <2> HIDE DEF old
  <2>2. \A i \in DOMAIN chat : Assistant(chat[i]) =>
          \A q \in chat[i].runs \ more : Covered(chat[i].text, said[q])
    BY <1>1, <2>1 DEF Told
  <2> QED
    BY <1>5, <1>6, <2>2, NothingHeard DEF Told
<1>8. \A n \in DOMAIN queue : Worded(queue[n])
  BY <1>1, <1>4 DEF Worded
<1>9. \A n \in DOMAIN queue : queue[n].kind = "text" => queue[n].run \in 1..started
  <2>1. \A n \in DOMAIN updates : updates[n].run \in 1..started
    BY DEF IInv, TranscriptInv, Fits
  <2> QED
    BY <1>1, <2>1
<1>10. OfOne(queue, r, said)
  BY <1>5, <1>9 DEF OfOne
<1>11. /\ content.assistant.text \in Texts
       /\ Told(content, r, more, HeardOf(said, queue))
       /\ HeardOf(said, queue) \in Hearings
  <2>1. Kept([assistant |-> NoMessage, chat |-> chat], r, more)
    BY <1>1 DEF empty
  <2>2. Told([assistant |-> NoMessage, chat |-> chat], r, more, said)
    BY <1>7 DEF empty
  <2>3. NoMessage.text \in Texts
    BY NothingSaid
  <2> QED
    BY <1>1, <1>2, <1>4, <1>8, <1>10, <2>1, <2>2, <2>3, ContentsTell
<1>12. said' \in Hearings /\ Told([assistant |-> assistant', chat |-> chat'], r, more, said')
  BY <1>2, <1>11, RenderedTells
<1>13. \A q \in Runs : q > started' => said'[q] = << >>
  <2> TAKE q \in Runs
  <2>1. HAVE q > started'
  <2>2. q > started /\ q \notin 1..started
    <3>1. q \in Nat /\ r = started + 1
      BY Bounds DEF Runs, r
    <3> QED
      BY <1>1, <1>3, <2>1, <3>1
  <2>3. said[q] = << >>
    BY <1>4, <2>2
  <2>4. \A n \in DOMAIN queue : ~(queue[n].kind = "text" /\ queue[n].run = q)
    BY <1>9, <2>2
  <2>5. IsList(queue)
    BY <1>1
  <2>6. said' = [s \in Runs |-> IF content.chat = << >> THEN << >> ELSE said[s] \o TextsOf(s, queue)]
    BY <1>2
  <2> QED
    BY <2>3, <2>4, <2>5, <2>6, Unsaid
<1> QED
  BY <1>2, <1>3, <1>11, <1>12, <1>13, NothingSaid DEF SaidInv, more

LEMMA CommitTells ==
  ASSUME PageAssumption, TranscriptAssumption, IInv, SaidInv, Commit
  PROVE  SaidInv'
<1>1. PICK content \in Contents(updates, assistant) :
        /\ assistant' = content.assistant /\ chat' = content.chat /\ updates' = << >>
        /\ said' = [q \in Runs |-> IF content.chat = << >> THEN << >> ELSE said[q] \o TextsOf(q, updates)]
  BY DEF Commit, Rendered
<1>2. started' = started /\ overtaken' = overtaken /\ wire' = wire
  BY DEF Commit
<1>3. /\ started \in 0..MaxRuns /\ started \in Nat
      /\ IsList(updates) /\ \A n \in DOMAIN updates : Fits(updates[n], started, {})
      /\ Kept([assistant |-> assistant, chat |-> chat], started, overtaken)
  BY Bounds DEF IInv, RunsInv, TranscriptInv
<1>4. \A n \in DOMAIN updates : Fits(updates[n], started, overtaken) /\ Worded(updates[n])
  BY <1>3, FitsMore DEF SaidInv
<1>5. \A n \in DOMAIN updates : updates[n].kind = "text" => updates[n].run = started
  BY <1>3, FitsMore
<1>6. OfOne(updates, started, said)
  BY <1>5 DEF OfOne
<1>7. /\ said \in Hearings /\ \A q \in Runs : q > started => said[q] = << >>
      /\ assistant.text \in Texts
      /\ Told([assistant |-> assistant, chat |-> chat], started, overtaken, said)
  BY DEF SaidInv
<1>8. /\ content.assistant.text \in Texts
      /\ Told(content, started, overtaken, HeardOf(said, updates))
      /\ HeardOf(said, updates) \in Hearings
  BY <1>1, <1>3, <1>4, <1>6, <1>7, ContentsTell
<1>9. said' \in Hearings /\ Told([assistant |-> assistant', chat |-> chat'], started, overtaken, said')
  BY <1>1, <1>8, RenderedTells
<1>10. \A q \in Runs : q > started => said'[q] = << >>
  <2> TAKE q \in Runs
  <2>1. HAVE q > started
  <2>2. q # started
    <3>1. q \in Nat
      BY Bounds DEF Runs
    <3> QED
      BY <1>3, <2>1, <3>1
  <2>3. \A n \in DOMAIN updates : ~(updates[n].kind = "text" /\ updates[n].run = q)
    BY <1>5, <2>2
  <2>4. said[q] = << >>
    BY <1>7, <2>1
  <2> QED
    BY <1>1, <1>3, <2>3, <2>4, Unsaid
<1> QED
  BY <1>1, <1>2, <1>8, <1>9, <1>10, NothingSaid DEF SaidInv

LEMMA StartOverTells ==
  ASSUME PageAssumption, TranscriptAssumption, IInv, SaidInv,
         NEW refs \in {NoMessage, assistant}, NEW content \in Contents(updates \o Reset, refs),
         StartOver(content), assistant' \in {content.assistant, NoMessage}
  PROVE  SaidInv'
<1> DEFINE update == [kind |-> "reset", run |-> NoRun, role |-> "system", text |-> << >>]
           queue == updates \o <<update>>
<1>1. /\ UNCHANGED <<started, overtaken, wire>>
      /\ chat' = content.chat /\ updates' = << >>
      /\ said' = [q \in Runs |-> IF content.chat = << >> THEN << >> ELSE said[q] \o TextsOf(q, updates \o Reset)]
  BY DEF StartOver, Rendered
<1>2. IsList(updates) /\ \A n \in DOMAIN updates : Fits(updates[n], started, {})
  BY DEF IInv, TranscriptInv
<1>3. content.chat = << >>
  <2>1. /\ started \in Nat
        /\ Kept([assistant |-> assistant, chat |-> chat], started, overtaken)
    BY Bounds DEF IInv, RunsInv, TranscriptInv
  <2>2. \A others : \A n \in DOMAIN updates : Fits(updates[n], started, others)
    BY <1>2, <2>1, FitsMore
  <2>3. CASE refs = assistant
    BY <1>2, <2>1, <2>2, <2>3, ResetContents
  <2>4. CASE refs = NoMessage
    <3>1. Kept([assistant |-> NoMessage, chat |-> chat], started, 1..started)
      BY <2>1, ResetRefs
    <3> QED
      BY <1>2, <2>1, <2>2, <2>4, <3>1, ResetContents
  <2> QED
    BY <2>3, <2>4
<1>4. content.assistant.text \in Texts
  <2>1. updates \o Reset = queue
    BY DEF Reset
  <2>2. update.kind = "reset"
    OBVIOUS
  <2> HIDE DEF update
  <2>3. /\ IsList(queue) /\ DOMAIN updates = 1..Len(updates) /\ DOMAIN queue = 1..(Len(updates) + 1)
        /\ \A n \in 1..Len(updates) : queue[n] = updates[n]
        /\ queue[Len(updates) + 1] = update /\ Len(updates) \in Nat
    BY <1>2, Queued
  <2> HIDE DEF queue
  <2>4. \A n \in DOMAIN queue : (n \in DOMAIN updates /\ queue[n] = updates[n]) \/ queue[n] = update
    BY <2>3
  <2>5. \A n \in DOMAIN updates : Worded(updates[n]) /\ updates[n].kind \in {"text", "say", "reset"}
    BY <1>2 DEF SaidInv, Fits
  <2>6. Worded(update) /\ update.kind \in {"text", "say", "reset"}
    BY <2>2 DEF Worded
  <2>7. \A n \in DOMAIN queue : Worded(queue[n]) /\ queue[n].kind \in {"text", "say", "reset"}
    BY <2>4, <2>5, <2>6
  <2>8. refs.text \in Texts
    BY NothingSaid DEF SaidInv
  <2> QED
    BY <2>1, <2>3, <2>7, <2>8, ContentsTyped
<1>5. assistant'.text \in Texts
  BY <1>4, NothingSaid
<1>6. said' = [q \in Runs |-> << >>] /\ chat' = << >>
  BY <1>1, <1>3
<1>7. \A q \in Runs : said'[q] = << >>
  BY <1>6
<1> QED
  BY <1>1, <1>5, <1>6, <1>7, NothingSaid DEF SaidInv

\* Nothing is rendered.
LEMMA SaidStays ==
  ASSUME SaidInv, UNCHANGED <<started, assistant, chat, overtaken, said>>,
         \A n \in DOMAIN updates' : Worded(updates'[n]),
         \A frame \in ToSet(wire') : frame.kind = "text" => frame.value \in Texts
  PROVE  SaidInv'
BY DEF SaidInv

LEMMA ReceiveTells ==
  ASSUME PageAssumption, IInv, SaidInv, Receive
  PROVE  SaidInv'
<1>1. UNCHANGED <<started, assistant, chat, overtaken, said, updates>>
  BY DEF Receive
<1> DEFINE compatibility == origin[started].mode = "compatibility"
<1>2. PICK payload \in Payloads :
        wire' = ProcessProtocolPayload(payload, compatibility \/ origin[started].negotiated, compatibility)
  BY DEF Receive
<1>3. compatibility \in BOOLEAN
  OBVIOUS
<1> HIDE DEF compatibility
<1> DEFINE enabled == compatibility \/ origin[started].negotiated
<1>4. enabled \in BOOLEAN
  OBVIOUS
<1>5. wire' = ProcessProtocolPayload(payload, enabled, compatibility)
  BY <1>2
<1> HIDE DEF enabled
<1>6. \A place \in DOMAIN payload : payload[place] \in Objects
  BY DEF PageAssumption
<1>7. \A frame \in ToSet(wire') : frame.kind = "text" => frame.value \in Seq(STRING)
  BY <1>3, <1>4, <1>5, <1>6, FramesFacts
<1>8. \A text \in Seq(STRING) : text \in Texts
  <2>1. STRING \subseteq Chars
    BY DEF Chars
  <2> QED
    BY <2>1, SeqMonotonic DEF Texts
<1>9. \A n \in DOMAIN updates' : Worded(updates'[n])
  BY <1>1 DEF SaidInv
<1> QED
  BY <1>1, <1>7, <1>8, <1>9, SaidStays

\* One more function waits.
LEMMA QueuedTells ==
  ASSUME IInv, SaidInv, NEW update, Worded(update), updates' = updates \o <<update>>
  PROVE  \A n \in DOMAIN updates' : Worded(updates'[n])
<1>1. IsList(updates)
  BY DEF IInv, TranscriptInv
<1>2. /\ DOMAIN updates = 1..Len(updates) /\ DOMAIN updates' = 1..(Len(updates) + 1)
      /\ Len(updates) \in Nat
      /\ \A n \in 1..Len(updates) : updates'[n] = updates[n]
      /\ updates'[Len(updates) + 1] = update
  BY <1>1, Queued
<1>3. \A n \in DOMAIN updates : Worded(updates[n])
  BY DEF SaidInv
<1> QED
  BY <1>2, <1>3

LEMMA HandleWorkbenchFrameTells ==
  ASSUME IInv, SurfacesInv, SaidInv, HandleWorkbenchFrame
  PROVE  SaidInv'
<1> DEFINE frame == Head(wire)
<1>1. /\ wire # << >> /\ wire' = Tail(wire)
      /\ UNCHANGED <<started, assistant, chat, overtaken, said>>
      /\ \/ frame.kind = "meta" /\ HandleMeta(frame.value)
         \/ frame.kind = "status" /\ HandleStatus(frame.value)
         \/ frame.kind = "text" /\ HandleText(frame.value)
         \/ frame.kind = "a2ui" /\ HandleA2ui(frame.value)
  BY DEF HandleWorkbenchFrame
<1>2. ToSet(wire') \subseteq ToSet(wire) /\ frame \in ToSet(wire)
  <2>1. IsList(wire)
    BY DEF SurfacesInv, Underway
  <2> QED
    BY <1>1, <2>1, TailOfList
<1> HIDE DEF frame
<1>3. \A f \in ToSet(wire') : f.kind = "text" => f.value \in Texts
  BY <1>2 DEF SaidInv
<1>4. CASE frame.kind = "text" /\ HandleText(frame.value)
  <2> DEFINE update == [kind |-> "text", run |-> started, role |-> "assistant", text |-> frame.value]
  <2>1. updates' = updates \o <<update>>
    BY <1>4 DEF HandleText, Text
  <2>2. frame.value \in Texts
    BY <1>2, <1>4 DEF SaidInv
  <2>3. Worded(update)
    BY <2>2 DEF Worded
  <2> HIDE DEF update
  <2> QED
    BY <1>1, <1>3, <2>1, <2>3, QueuedTells, SaidStays
<1>5. CASE UNCHANGED updates
  <2>1. \A n \in DOMAIN updates' : Worded(updates'[n])
    BY <1>5 DEF SaidInv
  <2> QED
    BY <1>1, <1>3, <2>1, SaidStays
<1> QED
  BY <1>1, <1>4, <1>5 DEF HandleMeta, HandleStatus, HandleA2ui

LEMMA ReturnTells ==
  ASSUME IInv, SaidInv, NEW r, Return(r), \A n \in DOMAIN updates' : Worded(updates'[n])
  PROVE  SaidInv'
<1>1. wire' = << >> /\ UNCHANGED <<started, assistant, chat, overtaken, said>>
  BY DEF Return
<1> QED
  BY <1>1, NothingSaid, SaidStays

LEMMA CatchAbortTells ==
  ASSUME IInv, SaidInv, CatchAbort
  PROVE  SaidInv'
<1>1. PICK r \in open \cap aborted : updates' = updates \o Say(r, "system") /\ Return(r)
  BY DEF CatchAbort
<1> DEFINE update == [kind |-> "say", run |-> r, role |-> "system", text |-> << >>]
<1>2. updates' = updates \o <<update>> /\ Worded(update)
  BY <1>1 DEF Say, Worded
<1> HIDE DEF update
<1> QED
  BY <1>1, <1>2, QueuedTells, ReturnTells

\* What the transcript holds of what was said, run by run.
THEOREM SaidInvariance ==
  Spec => []SaidInv
<1>1. Init => SaidInv
  BY InitTells
<1>2. IInv /\ SurfacesInv /\ SaidInv /\ [Next]_vars => SaidInv'
  <2> SUFFICES ASSUME IInv, SurfacesInv, SaidInv, [Next]_vars PROVE SaidInv'
    OBVIOUS
  <2>1. /\ \A n \in DOMAIN updates : Worded(updates[n])
        /\ \A frame \in ToSet(wire) : frame.kind = "text" => frame.value \in Texts
    BY DEF SaidInv
  <2>2. CASE Run
    BY <2>2, PageAssumption, TranscriptAssumption, RunTells
  <2>3. CASE Clear
    <3>1. PICK content \in Contents(updates \o Reset, NoMessage) :
            StartOver(content) /\ assistant' = content.assistant
      BY <2>3 DEF Clear
    <3> QED
      BY <3>1, PageAssumption, TranscriptAssumption, StartOverTells
  <2>4. CASE ChangeMode
    <3>1. PICK content \in Contents(updates \o Reset, assistant) : StartOver(content)
      BY <2>4 DEF ChangeMode
    <3>2. assistant' = NoMessage
      BY <2>4 DEF ChangeMode
    <3> QED
      BY <3>1, <3>2, PageAssumption, TranscriptAssumption, StartOverTells
  <2>5. CASE Commit
    BY <2>5, PageAssumption, TranscriptAssumption, CommitTells
  <2>6. CASE Receive
    BY <2>6, PageAssumption, ReceiveTells
  <2>7. CASE HandleWorkbenchFrame
    BY <2>7, HandleWorkbenchFrameTells
  <2>8. CASE AbortRun
    <3>1. UNCHANGED <<started, assistant, chat, overtaken, said, updates, wire>>
      BY <2>8 DEF AbortRun
    <3> QED
      BY <2>1, <3>1, SaidStays
  <2>9. CASE ReadEnd
    <3>1. Return(started) /\ updates' = updates
      BY <2>9 DEF ReadEnd
    <3> QED
      BY <2>1, <3>1, ReturnTells
  <2>10. CASE CatchAbort
    BY <2>10, CatchAbortTells
  <2>11. CASE UNCHANGED vars
    <3>1. UNCHANGED <<started, assistant, chat, overtaken, said, updates, wire>>
      BY <2>11 DEF vars
    <3> QED
      BY <2>1, <3>1, SaidStays
  <2> QED
    BY <2>2, <2>3, <2>4, <2>5, <2>6, <2>7, <2>8, <2>9, <2>10, <2>11 DEF Next
<1> QED
  BY <1>1, <1>2, TranscriptInvariance, SurfacesInvariance, PTL DEF Spec

\* The message of a run holds every text of the run, but for those given up for a later one that
\* is long enough to be a final answer or to repeat the end of the message.
THEOREM TextsCorrect ==
  Spec => []ShortTextsAreKept
<1>1. SaidInv => ShortTextsAreKept
  <2> SUFFICES ASSUME SaidInv PROVE ShortTextsAreKept
    OBVIOUS
  <2> DEFINE content == [assistant |-> assistant, chat |-> chat]
  <2>1. content.chat = chat /\ Told(content, started, overtaken, said)
    BY DEF SaidInv
  <2> HIDE DEF content
  <2>2. \A i \in DOMAIN chat : Assistant(chat[i]) =>
          \A q \in chat[i].runs \ overtaken : Covered(chat[i].text, said[q])
    BY <2>1 DEF Told
  <2> QED
    BY <2>2 DEF ShortTextsAreKept, Covered, Long
<1> QED
  BY <1>1, SaidInvariance, PTL
=============================================================================
