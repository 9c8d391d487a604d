------------------------- MODULE DeliveryLogProofs -------------------------
(***************************************************************************)
(* Proofs about DeliveryLog, for all messages, requests and recipients and  *)
(* any number of submissions.                                              *)
(*                                                                         *)
(* The first part is about the calls.  What a thread has to do is a         *)
(* sequence of calls.  Ordered says of such a sequence what does not depend *)
(* on who has it; it holds of what a log event gives a thread, and the tail *)
(* of an ordered sequence is ordered.                                      *)
(***************************************************************************)
EXTENDS DeliveryLog, SequenceTheorems, TLAPS

USE DeliveryAssumption

LineKinds == {"Line", "Indent"}

RowKinds == {"Insert", "Forwarded"}

(* Nothing is inserted or recorded twice, and a record is not interrupted   *)
(* by calls of its own thread.                                             *)
Ordered(s) ==
  /\ \A i, j \in DOMAIN s : s[i].kind \in RowKinds /\ s[i] = s[j] => i = j
  /\ \A i \in DOMAIN s :
       s[i].kind = "Indent" /\ i - 1 \in DOMAIN s => s[i - 1].kind \in LineKinds

StartsRecord(s) == s # <<>> => s[1].kind # "Indent"

-----------------------------------------------------------------------------
(* A call taken from a sequence.                                           *)
LEMMA TailFacts ==
  ASSUME NEW s \in Seq(Calls), s # <<>>
  PROVE  /\ Tail(s) \in Seq(Calls)
         /\ 1 \in DOMAIN s
         /\ Head(s) = s[1]
         /\ Head(s) \in Calls
         /\ \A i \in DOMAIN Tail(s) : i + 1 \in DOMAIN s /\ Tail(s)[i] = s[i + 1]
         /\ \A i \in DOMAIN s : i # 1 => /\ i - 1 \in DOMAIN Tail(s)
                                        /\ s[i] = Tail(s)[i - 1]
<1>1. /\ Tail(s) \in Seq(Calls) /\ Head(s) \in Calls
      /\ Len(Tail(s)) = Len(s) - 1
      /\ \A i \in 1..Len(Tail(s)) : Tail(s)[i] = s[i + 1]
  BY HeadTailProperties
<1>2. /\ DOMAIN s = 1..Len(s) /\ Len(s) \in Nat \ {0}
      /\ DOMAIN Tail(s) = 1..Len(Tail(s))
  BY <1>1, LenProperties, EmptySeq
<1>3. Head(s) = s[1]
  OBVIOUS
<1>4. QED
  BY <1>1, <1>2, <1>3

(* What is left of an ordered sequence of calls is ordered.                 *)
LEMMA TailOrdered ==
  ASSUME NEW s \in Seq(Calls), s # <<>>, Ordered(s)
  PROVE  Ordered(Tail(s))
<1>1. DOMAIN s \subseteq Int /\ DOMAIN Tail(s) \subseteq Int
  BY LenProperties, TailFacts
<1>2. ASSUME NEW i \in DOMAIN Tail(s), NEW j \in DOMAIN Tail(s),
             Tail(s)[i].kind \in RowKinds, Tail(s)[i] = Tail(s)[j]
      PROVE  i = j
  <2>1. /\ i + 1 \in DOMAIN s /\ j + 1 \in DOMAIN s
        /\ s[i + 1].kind \in RowKinds /\ s[i + 1] = s[j + 1]
    BY <1>2, TailFacts
  <2>2. i + 1 = j + 1
    BY <2>1 DEF Ordered
  <2>3. QED
    BY <1>1, <2>2
<1>3. ASSUME NEW i \in DOMAIN Tail(s), Tail(s)[i].kind = "Indent",
             i - 1 \in DOMAIN Tail(s)
      PROVE  Tail(s)[i - 1].kind \in LineKinds
  <2>1. i + 1 \in DOMAIN s /\ s[i + 1].kind = "Indent"
    BY <1>3, TailFacts
  <2>2. (i - 1) + 1 \in DOMAIN s /\ Tail(s)[i - 1] = s[(i - 1) + 1]
    BY <1>3, TailFacts
  <2>3. (i - 1) + 1 = i /\ (i + 1) - 1 = i
    BY <1>1
  <2>4. QED
    BY <2>1, <2>2, <2>3 DEF Ordered
<1>4. QED
  BY <1>2, <1>3 DEF Ordered

(* A record that is begun is the first one after every other call.         *)
LEMMA TailStarts ==
  ASSUME NEW s \in Seq(Calls), s # <<>>, Ordered(s), Head(s).kind \notin LineKinds
  PROVE  StartsRecord(Tail(s))
<1>1. SUFFICES ASSUME Tail(s) # <<>> PROVE Tail(s)[1].kind # "Indent"
  BY DEF StartsRecord
<1>2. 1 \in DOMAIN Tail(s)
  BY <1>1, TailFacts
<1>3. /\ 2 \in DOMAIN s /\ Tail(s)[1] = s[2] /\ 2 - 1 = 1
      /\ 1 \in DOMAIN s /\ s[1].kind \notin LineKinds
  BY <1>2, TailFacts
<1>4. QED
  BY <1>3 DEF Ordered

-----------------------------------------------------------------------------
(* The calls of two handlers, one after the other.                         *)
LEMMA ConcatFacts ==
  ASSUME NEW s \in Seq(Calls), NEW u \in Seq(Calls)
  PROVE  /\ s \o u \in Seq(Calls)
         /\ \A i \in DOMAIN (s \o u) :
              \/ i \in DOMAIN s /\ (s \o u)[i] = s[i]
              \/ i - Len(s) \in DOMAIN u /\ (s \o u)[i] = u[i - Len(s)]
         /\ \A i \in DOMAIN s : i \in DOMAIN (s \o u) /\ (s \o u)[i] = s[i]
         /\ \A i \in DOMAIN u : /\ i + Len(s) \in DOMAIN (s \o u)
                                /\ (s \o u)[i + Len(s)] = u[i]
         /\ s # <<>> \/ u # <<>> => s \o u # <<>>
<1>1. /\ s \o u \in Seq(Calls) /\ Len(s \o u) = Len(s) + Len(u)
      /\ \A i \in 1..Len(s) + Len(u) :
           (s \o u)[i] = IF i <= Len(s) THEN s[i] ELSE u[i - Len(s)]
  BY ConcatProperties
<1>2. /\ DOMAIN s = 1..Len(s) /\ Len(s) \in Nat
      /\ DOMAIN u = 1..Len(u) /\ Len(u) \in Nat
      /\ DOMAIN (s \o u) = 1..Len(s) + Len(u)
  BY <1>1, LenProperties
<1>3. s # <<>> \/ u # <<>> => s \o u # <<>>
  BY ConcatEqualIffEmpty
<1>4. QED
  BY <1>1, <1>2, <1>3

(* The calls of two handlers, one after the other, are ordered: they have   *)
(* no kind in common.                                                       *)
LEMMA ConcatOrdered ==
  ASSUME NEW s \in Seq(Calls), NEW u \in Seq(Calls), Ordered(s), Ordered(u),
         StartsRecord(s), StartsRecord(u),
         \A i \in DOMAIN s, j \in DOMAIN u : s[i].kind # u[j].kind
  PROVE  Ordered(s \o u) /\ StartsRecord(s \o u)
<1> DEFINE su == s \o u
<1>1. /\ DOMAIN s = 1..Len(s) /\ Len(s) \in Nat
      /\ DOMAIN u = 1..Len(u) /\ Len(u) \in Nat
      /\ DOMAIN su = 1..Len(s) + Len(u)
      /\ \A i \in DOMAIN su : su[i] = IF i <= Len(s) THEN s[i] ELSE u[i - Len(s)]
  BY ConcatProperties, LenProperties
<1> HIDE DEF su
<1>2. ASSUME NEW i \in DOMAIN su, NEW j \in DOMAIN su,
             su[i].kind \in RowKinds, su[i] = su[j]
      PROVE  i = j
  <2>1. CASE i <= Len(s) /\ j <= Len(s)
    BY <1>1, <1>2, <2>1 DEF Ordered
  <2>2. CASE i > Len(s) /\ j > Len(s)
    <3>1. /\ i - Len(s) \in DOMAIN u /\ j - Len(s) \in DOMAIN u
          /\ u[i - Len(s)].kind \in RowKinds /\ u[i - Len(s)] = u[j - Len(s)]
      BY <1>1, <1>2, <2>2
    <3>2. i - Len(s) = j - Len(s)
      BY <3>1 DEF Ordered
    <3>3. QED
      BY <1>1, <3>2
  <2>3. CASE i <= Len(s) /\ j > Len(s)
    <3>1. i \in DOMAIN s /\ j - Len(s) \in DOMAIN u /\ s[i] = u[j - Len(s)]
      BY <1>1, <1>2, <2>3
    <3>2. QED
      BY <3>1
  <2>4. CASE i > Len(s) /\ j <= Len(s)
    <3>1. j \in DOMAIN s /\ i - Len(s) \in DOMAIN u /\ s[j] = u[i - Len(s)]
      BY <1>1, <1>2, <2>4
    <3>2. QED
      BY <3>1
  <2>5. QED
    BY <1>1, <2>1, <2>2, <2>3, <2>4
<1>3. ASSUME NEW i \in DOMAIN su, su[i].kind = "Indent", i - 1 \in DOMAIN su
      PROVE  su[i - 1].kind \in LineKinds
  <2>1. CASE i <= Len(s)
    <3>1. /\ i \in DOMAIN s /\ s[i].kind = "Indent" /\ i - 1 \in DOMAIN s
          /\ su[i - 1] = s[i - 1]
      BY <1>1, <1>3, <2>1
    <3>2. QED
      BY <3>1 DEF Ordered
  <2>2. CASE i = Len(s) + 1
    <3>1. 1 \in DOMAIN u /\ u[1].kind = "Indent" /\ i - Len(s) = 1
      BY <1>1, <1>3, <2>2
    <3>2. QED
      BY <3>1 DEF StartsRecord
  <2>3. CASE i > Len(s) + 1
    <3>1. /\ i - Len(s) \in DOMAIN u /\ u[i - Len(s)].kind = "Indent"
          /\ (i - Len(s)) - 1 \in DOMAIN u
          /\ su[i - 1] = u[(i - Len(s)) - 1]
      <4>1. (i - 1) - Len(s) = (i - Len(s)) - 1
        BY <1>1
      <4>2. QED
        BY <1>1, <1>3, <2>3, <4>1
    <3>2. QED
      BY <3>1 DEF Ordered
  <2>4. QED
    BY <1>1, <2>1, <2>2, <2>3
<1>4. StartsRecord(su)
  <2>1. SUFFICES ASSUME su # <<>> PROVE su[1].kind # "Indent"
    BY DEF StartsRecord
  <2>2. 1 \in DOMAIN su
    <3>1. su \in Seq(Calls)
      BY ConcatProperties DEF su
    <3>2. Len(su) \in Nat \ {0} /\ DOMAIN su = 1..Len(su)
      BY <2>1, <3>1, EmptySeq, LenProperties
    <3>3. QED
      BY <3>2
  <2>3. CASE Len(s) = 0
    <3>1. 1 \in DOMAIN u /\ su[1] = u[1]
      BY <1>1, <2>2, <2>3
    <3>2. QED
      BY <3>1 DEF StartsRecord
  <2>4. CASE Len(s) # 0
    <3>1. 1 \in DOMAIN s /\ su[1] = s[1]
      BY <1>1, <2>2, <2>4
    <3>2. QED
      BY <3>1 DEF StartsRecord
  <2>5. QED
    BY <2>3, <2>4
<1>5. QED
  BY <1>2, <1>3, <1>4 DEF Ordered, su

-----------------------------------------------------------------------------
(* The calls of a log event.                                               *)
Events == {"Acceptance", "Submission", "SubmissionFailure",
           "Delivery", "DeliveryFailure", "StatusUpdate"}

Submissions == {"Submission", "SubmissionFailure"}

SqlKinds(event) ==
  IF event = "Acceptance" THEN {"Insert"}
  ELSE IF event \in Submissions THEN {"Forwarded"}
  ELSE {event}

(* The recipients are numbered.                                             *)
LEMMA RecipientsFacts == Recipients = 1..RecipientCount /\ RecipientCount \in Nat
BY DEF Recipients

(* A header with its indented lines is ordered.                             *)
LEMMA RecordOrdered ==
  ASSUME NEW s \in Seq(Calls), NEW n \in Nat, DOMAIN s = 1..1 + n,
         \A i \in 1..1 + n :
           s[i].kind \in LineKinds /\ (s[i].kind = "Indent" => i # 1)
  PROVE  Ordered(s) /\ StartsRecord(s)
BY DEF Ordered, StartsRecord, LineKinds, RowKinds

(* The calls of the text log for an event.                                  *)
LEMMA TextFacts ==
  ASSUME NEW event, NEW m \in Messages
  PROVE  LET s == TextCalls(event, m)
         IN  /\ s \in Seq(Calls) /\ Ordered(s) /\ StartsRecord(s)
             /\ \A i \in DOMAIN s : s[i].message = m /\ s[i].kind \in LineKinds
<1> DEFINE n == IndentedLines(event)
           line == <<Call("Line", m, 0)>>
           indents == [i \in 1..n |-> Call("Indent", m, 0)]
<1>1. n \in Nat
  BY DEF IndentedLines
<1>2. Call("Line", m, 0) \in Calls /\ Call("Indent", m, 0) \in Calls
  BY DEF Call, Calls
<1> HIDE DEF n
<1>3. line \in Seq(Calls) /\ DOMAIN line = {1} /\ line[1] = Call("Line", m, 0)
      /\ Len(line) = 1
  BY <1>2
<1>4. indents \in Seq(Calls) /\ DOMAIN indents = 1..n
      /\ \A i \in 1..n : indents[i] = Call("Indent", m, 0)
  <2>1. indents \in [1..n -> Calls]
    BY <1>2
  <2>2. QED
    BY <1>1, <2>1, SeqDef
<1> HIDE DEF line, indents
<1>5. /\ line \o indents \in Seq(Calls)
      /\ Len(line \o indents) = 1 + n
      /\ \A i \in 1..1 + n : (line \o indents)[i] =
                              IF i <= 1 THEN line[i] ELSE indents[i - 1]
  <2>1. Len(indents) = n
    BY <1>1, <1>4, LenProperties
  <2>2. /\ line \o indents \in Seq(Calls)
        /\ Len(line \o indents) = Len(line) + Len(indents)
        /\ \A i \in 1..Len(line) + Len(indents) : (line \o indents)[i] =
               IF i <= Len(line) THEN line[i] ELSE indents[i - Len(line)]
    <3>1. line \in Seq(Calls) /\ indents \in Seq(Calls)
      BY <1>3, <1>4
    <3>2. QED
      BY <3>1, ConcatProperties
  <2>3. Len(line) = 1
    BY <1>3
  <2>4. QED
    BY <2>1, <2>2, <2>3
<1>6. DOMAIN (line \o indents) = 1..1 + n
  BY <1>5, LenProperties
<1>7. \A i \in 1..1 + n : (line \o indents)[i] =
         IF i = 1 THEN Call("Line", m, 0) ELSE Call("Indent", m, 0)
  <2> TAKE i \in 1..1 + n
  <2>1. CASE i = 1
    BY <1>1, <1>3, <1>5, <2>1
  <2>2. CASE i # 1
    BY <1>1, <1>4, <1>5, <2>2
  <2>3. QED
    BY <2>1, <2>2
<1>8. TextCalls(event, m) = line \o indents
  BY DEF TextCalls, line, indents, n
<1>9. /\ TextCalls(event, m) \in Seq(Calls)
      /\ DOMAIN TextCalls(event, m) = 1..1 + n
      /\ \A i \in 1..1 + n :
           /\ TextCalls(event, m)[i].message = m
           /\ TextCalls(event, m)[i].kind \in LineKinds
           /\ TextCalls(event, m)[i].kind = "Indent" => i # 1
  BY <1>5, <1>6, <1>7, <1>8 DEF Call, LineKinds
<1>10. Ordered(TextCalls(event, m)) /\ StartsRecord(TextCalls(event, m))
  BY <1>1, <1>9, RecordOrdered
<1>11. QED
  BY <1>9, <1>10

(* The calls of the SQL log for an event.                                   *)
LEMMA SqlFacts ==
  ASSUME NEW event \in Events, NEW m \in Messages, NEW r \in 0..RecipientCount
  PROVE  LET s == SqlCalls(event, m, r)
         IN  /\ s \in Seq(Calls) /\ Ordered(s) /\ StartsRecord(s)
             /\ \A i \in DOMAIN s :
                  /\ s[i].message = m
                  /\ s[i].kind \in SqlKinds(event)
                  /\ s[i].kind = "Insert" => s[i].recipient = 0
                  /\ s[i].kind = "Forwarded" => s[i].recipient \in Recipients
                  /\ s[i].kind \in NotificationKinds => s[i].recipient = r
             /\ event \in Submissions =>
                  \A k \in Recipients : k \in DOMAIN s
                                        /\ s[k] = Call("Forwarded", m, k)
             /\ event = "Acceptance" => 1 \in DOMAIN s /\ s[1].kind = "Insert"
<1>1. CASE event \in Submissions
  <2> DEFINE s == [k \in Recipients |-> Call("Forwarded", m, k)]
  <2>1. s \in [1..RecipientCount -> Calls]
    BY RecipientsFacts DEF Call, Calls
  <2>2. s \in Seq(Calls) /\ DOMAIN s = Recipients
        /\ \A k \in Recipients : s[k] = Call("Forwarded", m, k)
    BY <2>1, SeqDef, RecipientsFacts
  <2>3. SqlCalls(event, m, r) = s /\ SqlKinds(event) = {"Forwarded"}
    BY <1>1 DEF SqlCalls, SqlKinds, Submissions
  <2> HIDE DEF s
  <2>4. Ordered(s) /\ StartsRecord(s)
    <3>1. Ordered(s)
      BY <2>2 DEF Ordered, Call
    <3>2. s # <<>> => 1 \in DOMAIN s
      BY <2>2, LenProperties, EmptySeq
    <3>3. QED
      BY <2>2, <3>1, <3>2 DEF StartsRecord, Call
  <2>5. QED
    BY <1>1, <2>2, <2>3, <2>4 DEF Call, NotificationKinds, Submissions
<1>2. CASE event \notin Submissions
  <2> DEFINE kind == IF event = "Acceptance" THEN "Insert" ELSE event
             k == IF event = "Acceptance" THEN 0 ELSE r
  <2>1. SqlCalls(event, m, r) = <<Call(kind, m, k)>> /\ SqlKinds(event) = {kind}
    BY <1>2 DEF SqlCalls, SqlKinds, Submissions
  <2>2. /\ kind \in {"Insert", "Delivery", "DeliveryFailure", "StatusUpdate"}
        /\ kind \in NotificationKinds => k = r
        /\ event = "Acceptance" => kind = "Insert"
        /\ kind = "Insert" => k = 0
        /\ k \in 0..RecipientCount
    BY <1>2 DEF Events, Submissions, NotificationKinds
  <2> HIDE DEF kind, k
  <2>3. Call(kind, m, k) \in Calls
    BY <2>2 DEF Call, Calls
  <2>4. QED
    BY <1>2, <2>1, <2>2, <2>3 DEF Ordered, StartsRecord, Call
<1>3. QED
  BY <1>1, <1>2

(* What an element of the calls of an event may be.                         *)
OfEvent(c, event, m, r) ==
  /\ c.message = m
  /\ \/ HasText /\ c.kind \in LineKinds
     \/ /\ HasSql /\ c.kind \in SqlKinds(event)
        /\ c.kind = "Insert" => c.recipient = 0
        /\ c.kind = "Forwarded" => c.recipient \in Recipients
        /\ c.kind \in NotificationKinds => c.recipient = r

(* The calls of all the handlers for an event.                              *)
LEMMA EventFacts ==
  ASSUME handlers \in HandlerLists, NEW event \in Events, NEW m \in Messages,
         NEW r \in 0..RecipientCount
  PROVE  LET s == EventCalls(event, m, r)
         IN  /\ s \in Seq(Calls) /\ Ordered(s) /\ StartsRecord(s)
             /\ \A i \in DOMAIN s : OfEvent(s[i], event, m, r)
             /\ HasSql /\ event \in Submissions =>
                  \A k \in Recipients : \E i \in DOMAIN s :
                                         s[i] = Call("Forwarded", m, k)
             /\ HasSql /\ event = "Acceptance" =>
                  \E i \in DOMAIN s : s[i].kind = "Insert"
<1> DEFINE text == TextCalls(event, m)
           sql == SqlCalls(event, m, r)
<1>1. /\ text \in Seq(Calls) /\ Ordered(text) /\ StartsRecord(text)
      /\ \A i \in DOMAIN text : text[i].message = m /\ text[i].kind \in LineKinds
  BY TextFacts
<1>2. /\ sql \in Seq(Calls) /\ Ordered(sql) /\ StartsRecord(sql)
      /\ \A i \in DOMAIN sql :
           /\ sql[i].message = m
           /\ sql[i].kind \in SqlKinds(event)
           /\ sql[i].kind = "Insert" => sql[i].recipient = 0
           /\ sql[i].kind = "Forwarded" => sql[i].recipient \in Recipients
           /\ sql[i].kind \in NotificationKinds => sql[i].recipient = r
  BY SqlFacts
<1>3. /\ event \in Submissions =>
           \A k \in Recipients : k \in DOMAIN sql /\ sql[k] = Call("Forwarded", m, k)
      /\ event = "Acceptance" => 1 \in DOMAIN sql /\ sql[1].kind = "Insert"
  BY SqlFacts
<1>4. SqlKinds(event) \cap LineKinds = {}
  BY DEF SqlKinds, LineKinds, Events
<1> HIDE DEF text, sql
<1>5. CASE handlers = <<>>
  <2>1. EventCalls(event, m, r) = <<>> /\ ~HasSql
    BY <1>5 DEF EventCalls, HasSql, Handles
  <2>2. QED
    BY <2>1 DEF Ordered, StartsRecord
<1>6. CASE handlers = <<"TextLogger">>
  <2>1. EventCalls(event, m, r) = text /\ ~HasSql /\ HasText
    BY <1>6 DEF EventCalls, HandlerCalls, HasSql, HasText, Handles, text
  <2>2. QED
    BY <1>1, <2>1 DEF OfEvent
<1>7. CASE handlers = <<"SqlServerLogger">>
  <2>1. EventCalls(event, m, r) = sql /\ HasSql
    BY <1>7 DEF EventCalls, HandlerCalls, HasSql, Handles, sql
  <2>2. QED
    BY <1>2, <1>3, <2>1 DEF OfEvent
<1>8. CASE handlers = <<"TextLogger", "SqlServerLogger">>
  <2>1. EventCalls(event, m, r) = text \o sql /\ HasSql /\ HasText
    BY <1>8 DEF EventCalls, HandlerCalls, HasSql, HasText, Handles, sql, text
  <2>2. Ordered(text \o sql) /\ StartsRecord(text \o sql)
    BY <1>1, <1>2, <1>4, ConcatOrdered
  <2>3. /\ text \o sql \in Seq(Calls)
        /\ \A i \in DOMAIN (text \o sql) :
             \/ \E j \in DOMAIN text : (text \o sql)[i] = text[j]
             \/ \E j \in DOMAIN sql : (text \o sql)[i] = sql[j]
        /\ \A j \in DOMAIN sql :
             \E i \in DOMAIN (text \o sql) : (text \o sql)[i] = sql[j]
    <3>1. /\ text \o sql \in Seq(Calls)
          /\ \A i \in DOMAIN (text \o sql) :
               \/ i \in DOMAIN text /\ (text \o sql)[i] = text[i]
               \/ /\ i - Len(text) \in DOMAIN sql
                  /\ (text \o sql)[i] = sql[i - Len(text)]
          /\ \A i \in DOMAIN text : /\ i \in DOMAIN (text \o sql)
                                 /\ (text \o sql)[i] = text[i]
          /\ \A i \in DOMAIN sql : /\ i + Len(text) \in DOMAIN (text \o sql)
                                 /\ (text \o sql)[i + Len(text)] = sql[i]
      BY <1>1, <1>2, ConcatFacts
    <3>2. QED
      BY <3>1
  <2> DEFINE both == text \o sql
  <2> HIDE DEF both
  <2>4. \A i \in DOMAIN both : OfEvent(both[i], event, m, r)
    BY <1>1, <1>2, <2>1, <2>3 DEF OfEvent, both
  <2>5. ASSUME event \in Submissions, NEW k \in Recipients
        PROVE  \E i \in DOMAIN both : both[i] = Call("Forwarded", m, k)
    BY <1>3, <2>3, <2>5 DEF both
  <2>6. event = "Acceptance" => \E i \in DOMAIN both : both[i].kind = "Insert"
    BY <1>3, <2>3 DEF both
  <2>7. both \in Seq(Calls) /\ Ordered(both) /\ StartsRecord(both)
    BY <2>2, <2>3 DEF both
  <2>8. QED
    BY <2>1, <2>4, <2>5, <2>6, <2>7 DEF both
<1>9. CASE handlers = <<"SqlServerLogger", "TextLogger">>
  <2>1. EventCalls(event, m, r) = sql \o text /\ HasSql /\ HasText
    BY <1>9 DEF EventCalls, HandlerCalls, HasSql, HasText, Handles, sql, text
  <2>2. Ordered(sql \o text) /\ StartsRecord(sql \o text)
    BY <1>1, <1>2, <1>4, ConcatOrdered
  <2>3. /\ sql \o text \in Seq(Calls)
        /\ \A i \in DOMAIN (sql \o text) :
             \/ \E j \in DOMAIN text : (sql \o text)[i] = text[j]
             \/ \E j \in DOMAIN sql : (sql \o text)[i] = sql[j]
        /\ \A j \in DOMAIN sql :
             \E i \in DOMAIN (sql \o text) : (sql \o text)[i] = sql[j]
    <3>1. /\ sql \o text \in Seq(Calls)
          /\ \A i \in DOMAIN (sql \o text) :
               \/ i \in DOMAIN sql /\ (sql \o text)[i] = sql[i]
               \/ /\ i - Len(sql) \in DOMAIN text
                  /\ (sql \o text)[i] = text[i - Len(sql)]
          /\ \A i \in DOMAIN sql : /\ i \in DOMAIN (sql \o text)
                                 /\ (sql \o text)[i] = sql[i]
          /\ \A i \in DOMAIN text : /\ i + Len(sql) \in DOMAIN (sql \o text)
                                 /\ (sql \o text)[i + Len(sql)] = text[i]
      BY <1>1, <1>2, ConcatFacts
    <3>2. QED
      BY <3>1
  <2> DEFINE both == sql \o text
  <2> HIDE DEF both
  <2>4. \A i \in DOMAIN both : OfEvent(both[i], event, m, r)
    BY <1>1, <1>2, <2>1, <2>3 DEF OfEvent, both
  <2>5. ASSUME event \in Submissions, NEW k \in Recipients
        PROVE  \E i \in DOMAIN both : both[i] = Call("Forwarded", m, k)
    BY <1>3, <2>3, <2>5 DEF both
  <2>6. event = "Acceptance" => \E i \in DOMAIN both : both[i].kind = "Insert"
    BY <1>3, <2>3 DEF both
  <2>7. both \in Seq(Calls) /\ Ordered(both) /\ StartsRecord(both)
    BY <2>2, <2>3 DEF both
  <2>8. QED
    BY <2>1, <2>4, <2>5, <2>6, <2>7 DEF both
<1>10. QED
  BY <1>5, <1>6, <1>7, <1>8, <1>9

-----------------------------------------------------------------------------
(* The steps.                                                              *)

Has(m, kind) == \E i \in DOMAIN todo[m] : todo[m][i].kind = kind

(* A call a thread may have to make.                                       *)
CallFits(t, c) ==
  /\ t \in Messages => c.message = t /\ c.kind \in LineKinds \cup RowKinds
  /\ t \in Requests => c.kind \in LineKinds \cup NotificationKinds
  /\ IF c.kind \in LineKinds THEN HasText ELSE HasSql
  /\ c.kind = "Insert" => c.recipient = 0
  /\ c.kind = "Forwarded" => c.recipient \in Recipients
  /\ c.kind \in NotificationKinds => c.recipient \in accepted[c.message]

CallsFit(t) ==
  /\ Ordered(todo[t])
  /\ \A i \in DOMAIN todo[t] : CallFits(t, todo[t][i])

(* How far a message has come says what its thread has to do.              *)
StageAgrees(m) ==
  /\ stage[m] \notin {"Send", "Logging"} => todo[m] = <<>>
  /\ \A r \in Recipients : IsDue(m, r) => stage[m] = "Logging"
  /\ Has(m, "Insert") =>
       stage[m] = "Send" /\ sends[m] = 0 /\ path[m] = "Direct"
  /\ stage[m] = "New" => sends[m] = 0
  /\ stage[m] = "Logging" => sends[m] > 0
  /\ stage[m] \in {"Logging", "Done"} =>
       \A r \in Recipients : answer[m][r] \in AnswerEntries

(* The rows are inserted before the gateway is called.                     *)
RowsAgree(m) ==
  /\ stage[m] = "New" \/ Has(m, "Insert") =>
       \A r \in Recipients : row[m][r] = Entry("Absent", "Null")
  /\ HasSql /\ stage[m] \in {"Send", "Unanswered", "Logging"} =>
       Has(m, "Insert") \/ \A r \in Recipients : row[m][r].status # "Absent"

(* An answer is still to be recorded or it is.                             *)
AnswerAgrees(m, r) ==
  HasSql /\ stage[m] \in {"Logging", "Done"} =>
    \/ IsDue(m, r)
    \/ /\ row[m][r].reference = answer[m][r].reference
       /\ row[m][r].status \in {answer[m][r].status} \cup Final

(* Before the first answer is recorded no notification finds the row.      *)
FirstAgrees(m, r) ==
  sends[m] = 0 \/ (sends[m] = 1 /\ IsDue(m, r)) =>
    row[m][r].status \notin Final /\ row[m][r].reference = "Null"

MessageInv(m) ==
  /\ StageAgrees(m)
  /\ RowsAgree(m)
  /\ \A r \in Recipients :
       AnswerAgrees(m, r) /\ FirstAgrees(m, r)

(* As long as records are not written at the same time, the last header is  *)
(* the one of the record that is incomplete.                               *)
FileAgrees ==
  ~overlapped => ~misfiled /\ \A t \in Threads : Incomplete(t) => lastHeader = t

DeliveryInv ==
  /\ TypeOK
  /\ \A t \in Threads : CallsFit(t)
  /\ \A m \in Messages : MessageInv(m)
  /\ FileAgrees
  /\ WritersHoldTheFile

(* Init.                                                                    *)
LEMMA InitInv == Init => DeliveryInv
<1> SUFFICES ASSUME Init PROVE DeliveryInv
  OBVIOUS
<1>1. TypeOK
  <2>1. /\ \A t \in Threads : <<>> \in Seq(Calls)
        /\ NoEntry \in AnswerEntries \cup {NoEntry}
        /\ Entry("Absent", "Null") \in [status : Statuses, reference : References]
    BY DEF Entry, Statuses, References
  <2>2. /\ todo \in [Threads -> Seq(Calls)]
        /\ answer \in [Messages -> [Recipients -> AnswerEntries \cup {NoEntry}]]
    BY <2>1 DEF Init
  <2>3. row \in [Messages -> [Recipients ->
                              [status : Statuses, reference : References]]]
    BY <2>1 DEF Init
  <2>4. /\ stage \in [Messages -> Stages]
        /\ sends \in [Messages -> 0..MaxSends]
        /\ accepted \in [Messages -> SUBSET Recipients]
    BY DEF Init, Stages
  <2>5. /\ misfiled \in BOOLEAN /\ overlapped \in BOOLEAN
        /\ enqueued \subseteq Messages
        /\ owner \in Processes \cup {"Nobody"}
        /\ lastHeader \in Threads \cup {"Nobody"}
    BY DEF Init
  <2>6. QED
    BY <2>2, <2>3, <2>4, <2>5 DEF Init, TypeOK
<1>2. \A t \in Threads : todo[t] = <<>> /\ CallsFit(t)
  BY DEF Init, CallsFit, Ordered
<1>3. ASSUME NEW m \in Messages PROVE MessageInv(m)
  <2>1. /\ ~Has(m, "Insert") /\ \A r \in Recipients : ~IsDue(m, r)
        /\ todo[m] = <<>>
    BY <1>2 DEF Has, IsDue, Threads
  <2>2. QED
    BY <2>1 DEF Init, MessageInv, StageAgrees, RowsAgree, AnswerAgrees,
                FirstAgrees, Entry, Final
<1>4. FileAgrees /\ WritersHoldTheFile
  BY <1>2 DEF Init, FileAgrees, WritersHoldTheFile, Incomplete
<1>5. QED
  BY <1>1, <1>2, <1>3, <1>4 DEF DeliveryInv

-----------------------------------------------------------------------------
(* What a step does to the calls of a thread.                              *)
LEMMA Taken ==
  ASSUME TypeOK, NEW t \in Threads, CallsFit(t), NEW kinds, TakeCall(t, kinds)
  PROVE  /\ todo' \in [Threads -> Seq(Calls)]
         /\ \A u \in Threads \ {t} : todo'[u] = todo[u]
         /\ todo[t] # <<>> /\ todo'[t] = Tail(todo[t])
         /\ Head(todo[t]) \in Calls /\ Head(todo[t]).kind \in kinds
         /\ CallFits(t, Head(todo[t]))
         /\ Ordered(todo'[t])
         /\ \A i \in DOMAIN todo'[t] : \E j \in DOMAIN todo[t] : todo'[t][i] = todo[t][j]
         /\ Head(todo[t]).kind \notin LineKinds => StartsRecord(todo'[t])
<1>1. /\ todo \in [Threads -> Seq(Calls)] /\ todo[t] \in Seq(Calls)
      /\ todo[t] # <<>> /\ Head(todo[t]).kind \in kinds
      /\ todo' = [todo EXCEPT ![t] = Tail(todo[t])]
  BY DEF TypeOK, TakeCall
<1>2. todo'[t] = Tail(todo[t])
  BY <1>1
<1>3. /\ Tail(todo[t]) \in Seq(Calls)
      /\ 1 \in DOMAIN todo[t] /\ Head(todo[t]) = todo[t][1]
      /\ Head(todo[t]) \in Calls
      /\ \A i \in DOMAIN Tail(todo[t]) : /\ i + 1 \in DOMAIN todo[t]
                                         /\ Tail(todo[t])[i] = todo[t][i + 1]
  BY <1>1, TailFacts
<1>4. CallFits(t, Head(todo[t])) /\ Ordered(todo[t])
  BY <1>3 DEF CallsFit
<1>5. /\ Ordered(Tail(todo[t]))
      /\ Head(todo[t]).kind \notin LineKinds => StartsRecord(Tail(todo[t]))
  BY <1>1, <1>4, TailOrdered, TailStarts
<1>6. QED
  BY <1>1, <1>2, <1>3, <1>4, <1>5

(* The answers that are due and the insertion, after a call is made.        *)
LEMMA TakenByMessage ==
  ASSUME TypeOK, NEW m \in Messages, CallsFit(m), NEW kinds, TakeCall(m, kinds)
  PROVE  /\ Head(todo[m]).message = m
         /\ \A r \in Recipients :
              IsDue(m, r)' <=> IsDue(m, r) /\ Head(todo[m]) # Call("Forwarded", m, r)
         /\ Has(m, "Insert")' <=> Has(m, "Insert") /\ Head(todo[m]).kind # "Insert"
         /\ Head(todo[m]).kind = "Insert" => Has(m, "Insert")
         /\ Head(todo[m]).kind = "Forwarded" =>
              /\ Head(todo[m]).recipient \in Recipients
              /\ Head(todo[m]) = Call("Forwarded", m, Head(todo[m]).recipient)
              /\ IsDue(m, Head(todo[m]).recipient)
         /\ Head(todo[m]).kind \in LineKinds \cup RowKinds
<1> DEFINE w == todo[m]
<1>1. /\ w \in Seq(Calls) /\ w # <<>> /\ todo'[m] = Tail(w) /\ Ordered(w)
      /\ \A i \in DOMAIN w : w[i] \in Calls /\ CallFits(m, w[i])
  <2>1. w \in Seq(Calls) /\ m \in Threads
    BY DEF TypeOK, Threads
  <2>2. \A i \in DOMAIN w : w[i] \in Calls
    BY <2>1, LenProperties, ElementOfSeq
  <2>3. QED
    BY <2>1, <2>2, Taken DEF CallsFit
<1>2. /\ 1 \in DOMAIN w /\ Head(w) = w[1]
      /\ \A i \in DOMAIN Tail(w) : i + 1 \in DOMAIN w /\ Tail(w)[i] = w[i + 1]
      /\ \A i \in DOMAIN w : i # 1 => /\ i - 1 \in DOMAIN Tail(w)
                                      /\ w[i] = Tail(w)[i - 1]
      /\ \A i \in DOMAIN Tail(w) : i \in Nat /\ i + 1 # 1
  <2>1. Tail(w) \in Seq(Calls)
    BY <1>1, TailFacts
  <2>2. DOMAIN Tail(w) = 1..Len(Tail(w))
    BY <2>1, LenProperties
  <2>3. QED
    BY <1>1, <2>2, TailFacts
<1> HIDE DEF w
<1>3. \A i \in DOMAIN w : /\ w[i].message = m
                          /\ w[i].kind \in LineKinds \cup RowKinds
                          /\ w[i].kind = "Insert" => w[i] = Call("Insert", m, 0)
                          /\ w[i].kind = "Forwarded" =>
                               /\ w[i].recipient \in Recipients
                               /\ w[i] = Call("Forwarded", m, w[i].recipient)
  BY <1>1 DEF CallFits, Calls, Call
<1>4. \A r \in Recipients : IsDue(m, r) <=> \E i \in DOMAIN w : w[i] = Call("Forwarded", m, r)
  BY DEF IsDue, w
<1>5. \A r \in Recipients :
        IsDue(m, r)' <=> \E i \in DOMAIN Tail(w) : Tail(w)[i] = Call("Forwarded", m, r)
  BY <1>1 DEF IsDue
<1>6. Has(m, "Insert") <=> \E i \in DOMAIN w : w[i].kind = "Insert"
  BY DEF Has, w
<1>7. Has(m, "Insert")' <=> \E i \in DOMAIN Tail(w) : Tail(w)[i].kind = "Insert"
  BY <1>1 DEF Has
<1>8. \A i \in DOMAIN Tail(w) : Tail(w)[i].kind \in RowKinds => Tail(w)[i] # Head(w)
  BY <1>1, <1>2 DEF Ordered
<1>9. ASSUME NEW r \in Recipients
      PROVE  IsDue(m, r)' <=> IsDue(m, r) /\ Head(w) # Call("Forwarded", m, r)
  <2>1. Call("Forwarded", m, r).kind \in RowKinds
    BY DEF Call, RowKinds
  <2>2. QED
    BY <1>2, <1>4, <1>5, <1>8, <2>1
<1>10. Has(m, "Insert")' <=> Has(m, "Insert") /\ Head(w).kind # "Insert"
  <2>1. "Insert" \in RowKinds
    BY DEF RowKinds
  <2>2. ASSUME Has(m, "Insert")' PROVE Has(m, "Insert") /\ Head(w).kind # "Insert"
    <3>1. PICK i \in DOMAIN Tail(w) : Tail(w)[i].kind = "Insert"
      BY <1>7, <2>2
    <3>2. Tail(w)[i] = w[i + 1] /\ i + 1 \in DOMAIN w /\ Tail(w)[i] # Head(w)
      BY <1>2, <1>8, <2>1, <3>1
    <3>3. QED
      BY <1>2, <1>3, <1>6, <3>1, <3>2
  <2>3. ASSUME Has(m, "Insert"), Head(w).kind # "Insert" PROVE Has(m, "Insert")'
    BY <1>2, <1>6, <1>7, <2>3
  <2>4. QED
    BY <2>2, <2>3
<1>11. QED
  BY <1>2, <1>3, <1>4, <1>6, <1>9, <1>10 DEF w

(* The calls of an event that a thread raises.                             *)
LEMMA Raised ==
  ASSUME TypeOK, NEW t \in Threads, NEW event \in Events, NEW m \in Messages,
         NEW r \in 0..RecipientCount, Notify(t, event, m, r)
  PROVE  /\ todo' \in [Threads -> Seq(Calls)]
         /\ \A u \in Threads \ {t} : todo'[u] = todo[u]
         /\ Ordered(todo'[t]) /\ StartsRecord(todo'[t])
         /\ \A i \in DOMAIN todo'[t] : OfEvent(todo'[t][i], event, m, r)
         /\ HasSql /\ event \in Submissions =>
              \A k \in Recipients : \E i \in DOMAIN todo'[t] :
                                     todo'[t][i] = Call("Forwarded", m, k)
         /\ HasSql /\ event = "Acceptance" =>
              \E i \in DOMAIN todo'[t] : todo'[t][i].kind = "Insert"
<1> DEFINE calls == EventCalls(event, m, r)
<1>1. handlers \in HandlerLists /\ todo \in [Threads -> Seq(Calls)]
  BY DEF TypeOK
<1>2. /\ calls \in Seq(Calls) /\ Ordered(calls) /\ StartsRecord(calls)
      /\ \A i \in DOMAIN calls : OfEvent(calls[i], event, m, r)
      /\ HasSql /\ event \in Submissions =>
           \A k \in Recipients : \E i \in DOMAIN calls :
                                  calls[i] = Call("Forwarded", m, k)
      /\ HasSql /\ event = "Acceptance" =>
           \E i \in DOMAIN calls : calls[i].kind = "Insert"
  BY <1>1, EventFacts
<1>3. todo' = [todo EXCEPT ![t] = calls]
  BY DEF Notify
<1> HIDE DEF calls
<1>4. /\ todo'[t] = calls /\ todo' \in [Threads -> Seq(Calls)]
      /\ \A u \in Threads \ {t} : todo'[u] = todo[u]
  BY <1>1, <1>2, <1>3
<1>5. QED
  BY <1>2, <1>4

(* What is due after a message's thread raised an event.                    *)
LEMMA RaisedByMessage ==
  ASSUME TypeOK, NEW m \in Messages, NEW event \in Submissions \cup {"Acceptance"},
         Notify(m, event, m, 0)
  PROVE  /\ \A k \in Recipients : IsDue(m, k)' <=> HasSql /\ event \in Submissions
         /\ Has(m, "Insert")' <=> HasSql /\ event = "Acceptance"
<1>1. /\ m \in Threads /\ event \in Events /\ 0 \in 0..RecipientCount
      /\ "Acceptance" \notin Submissions
  BY DEF Threads, Events, Submissions
<1>2. /\ \A i \in DOMAIN todo'[m] : OfEvent(todo'[m][i], event, m, 0)
      /\ HasSql /\ event \in Submissions =>
           \A k \in Recipients : \E i \in DOMAIN todo'[m] :
                                  todo'[m][i] = Call("Forwarded", m, k)
      /\ HasSql /\ event = "Acceptance" =>
           \E i \in DOMAIN todo'[m] : todo'[m][i].kind = "Insert"
  BY <1>1, Raised
<1>3. \A i \in DOMAIN todo'[m] :
        /\ todo'[m][i].kind = "Forwarded" => HasSql /\ event \in Submissions
        /\ todo'[m][i].kind = "Insert" => HasSql /\ event = "Acceptance"
  BY <1>1, <1>2 DEF OfEvent, LineKinds, SqlKinds
<1>4. \A k \in Recipients :
        IsDue(m, k)' <=> \E i \in DOMAIN todo'[m] : todo'[m][i] = Call("Forwarded", m, k)
  BY DEF IsDue
<1>5. Has(m, "Insert")' <=> \E i \in DOMAIN todo'[m] : todo'[m][i].kind = "Insert"
  BY DEF Has
<1>6. \A k \in Recipients : Call("Forwarded", m, k).kind = "Forwarded"
  BY DEF Call
<1>7. QED
  BY <1>2, <1>3, <1>4, <1>5, <1>6

(* A thread without calls has nothing due.                                  *)
LEMMA NothingToDo ==
  ASSUME NEW m \in Messages, todo[m] = <<>>
  PROVE  ~Has(m, "Insert") /\ \A r \in Recipients : ~IsDue(m, r)
BY DEF Has, IsDue

(* What a gateway may answer.                                               *)
LEMMA AnswersTyped ==
  ASSUME NEW m \in Messages
  PROVE  OnSend(m) \subseteq [Recipients -> AnswerEntries]
<1>1. /\ \A s \in {"Submitted", "AcceptanceFailure"}, ref \in {"Null", "Own", "Api"} :
           Entry(s, ref) \in AnswerEntries
  BY DEF AnswerEntries
<1>2. FakeAnswers \subseteq [Recipients -> AnswerEntries]
  BY <1>1 DEF FakeAnswers
<1>3. ClickatellAnswers \subseteq [Recipients -> AnswerEntries]
  BY <1>1 DEF ClickatellAnswers
<1>4. AspsmsAnswers \subseteq [Recipients -> AnswerEntries]
  BY <1>1 DEF AspsmsAnswers
<1>5. QED
  BY <1>2, <1>3, <1>4 DEF OnSend

(* The configuration and the processes stay as they are.                    *)
LEMMA ConfigKept ==
  ASSUME [Next]_vars
  PROVE  /\ UNCHANGED configVars
         /\ HasText' = HasText /\ HasSql' = HasSql
         /\ \A t \in Threads : Process(t)' = Process(t)
<1>1. ASSUME NEW m \in Messages,
             \/ Accept(m) \/ Enqueue(m) \/ NotifyEnqueuement(m)
             \/ Send(m) \/ SendFails(m) \/ Return(m)
      PROVE  UNCHANGED configVars
  BY <1>1 DEF Accept, Enqueue, NotifyEnqueuement, Send, SendFails, Return
<1>2. (\E q \in Requests : ProcessRequest(q)) => UNCHANGED configVars
  BY DEF ProcessRequest
<1>3. (\E t \in Threads : LogCall(t) \/ Throw(t)) => UNCHANGED configVars
  BY DEF LogCall, Throw, WriteLine, WriteIndented, Insert, Forwarded, Notified
<1>4. (\E p \in Processes : Die(p)) => UNCHANGED configVars
  BY DEF Die
<1>5. Next => UNCHANGED configVars
  BY <1>1, <1>2, <1>3, <1>4 DEF Next
<1>6. UNCHANGED configVars
  BY <1>5 DEF vars
<1>7. QED
  BY <1>6 DEF configVars, HasText, HasSql, Handles, Process

-----------------------------------------------------------------------------
(* The events by name.                                                      *)
LEMMA EventNames ==
  /\ "Acceptance" \in Events /\ Submissions \subseteq Events
  /\ "Submission" \in Submissions /\ "SubmissionFailure" \in Submissions
  /\ 0 \in 0..RecipientCount /\ Recipients \subseteq 0..RecipientCount
  /\ NotificationKinds \subseteq Events
  /\ \A code \in NotificationCodes : NotificationEvent(code) \in NotificationKinds
BY RecipientsFacts
DEF Events, Submissions, NotificationKinds, NotificationCodes, NotificationEvent

(* The threads and their processes.                                         *)
LEMMA ThreadsFacts ==
  /\ \A m \in Messages : m \in Threads /\ m \notin Requests
  /\ \A q \in Requests : q \in Threads /\ q \notin Messages
  /\ \A t \in Threads : (t \in Messages \/ t \in Requests) /\ Process(t) \in Processes
  /\ "Nobody" \notin Processes
BY DEF Threads, Process, Processes

(* Which thread makes which call.                                          *)
LEMMA CallKinds ==
  ASSUME TypeOK, NEW t \in Threads, CallsFit(t), NEW kinds, TakeCall(t, kinds)
  PROVE  LET c == Head(todo[t])
         IN  /\ c.message \in Messages
             /\ c.kind \in RowKinds => t \in Messages /\ c.message = t /\ HasSql
             /\ c.kind \in NotificationKinds =>
                  /\ t \in Requests /\ HasSql
                  /\ c.recipient \in accepted[c.message]
                  /\ c.recipient \in Recipients
             /\ c.kind \in LineKinds => HasText
<1> DEFINE c == Head(todo[t])
<1>1. c \in Calls /\ CallFits(t, c)
  BY Taken
<1> HIDE DEF c
<1>2. c.message \in Messages
  BY <1>1 DEF Calls
<1>3. c.kind \in RowKinds => t \in Messages /\ c.message = t /\ HasSql
  BY <1>1, ThreadsFacts DEF CallFits, RowKinds, LineKinds, NotificationKinds
<1>4. c.kind \in NotificationKinds =>
        t \in Requests /\ HasSql /\ c.recipient \in accepted[c.message]
  BY <1>1, ThreadsFacts DEF CallFits, RowKinds, LineKinds, NotificationKinds
<1>5. accepted[c.message] \subseteq Recipients
  BY <1>2 DEF TypeOK
<1>6. c.kind \in LineKinds => HasText
  BY <1>1 DEF CallFits
<1>7. QED
  BY <1>2, <1>3, <1>4, <1>5, <1>6 DEF c

(* Every variable keeps its type.                                          *)
LEMMA SenderTypes ==
  ASSUME TypeOK, NEW m \in Messages, CallsFit(m),
         \/ Accept(m) \/ Enqueue(m) \/ NotifyEnqueuement(m)
         \/ Send(m) \/ SendFails(m) \/ Return(m)
  PROVE  TypeOK'
<1> USE DEF configVars, messageVars, fileVars
<1>1. m \in Threads /\ Process(m) \in Processes /\ m \notin Requests
  BY ThreadsFacts
<1>2. ASSUME Initialize(Process(m)) PROVE owner' \in Processes \cup {"Nobody"}
  BY <1>1, <1>2 DEF Initialize, TypeOK
<1>3. CASE Accept(m)
  <2>1. todo' \in [Threads -> Seq(Calls)]
    BY <1>1, <1>3, EventNames, Raised DEF Accept
  <2>2. stage' \in [Messages -> Stages]
    BY <1>3 DEF Accept, TypeOK, Stages
  <2>3. QED
    BY <1>2, <1>3, <2>1, <2>2 DEF Accept, TypeOK
<1>4. CASE Enqueue(m)
  <2>1. stage' \in [Messages -> Stages]
    BY <1>4 DEF Enqueue, TypeOK, Stages
  <2>2. Entry("Inserted", "Null") \in [status : Statuses, reference : References]
    BY DEF Entry, Statuses, References
  <2>3. row' \in [Messages -> [Recipients ->
                              [status : Statuses, reference : References]]]
    BY <1>4, <2>2 DEF Enqueue, TypeOK
  <2>4. QED
    BY <1>2, <1>4, <2>1, <2>3 DEF Enqueue, TypeOK
<1>5. CASE NotifyEnqueuement(m)
  <2>1. overlapped' \in BOOLEAN /\ lastHeader' \in Threads \cup {"Nobody"}
    <3>1. lastHeader' \in Threads \cup {"Nobody"}
      BY <1>5 DEF NotifyEnqueuement, TypeOK
    <3>2. (overlapped \/ \E t \in Threads : Incomplete(t)) \in BOOLEAN
      OBVIOUS
    <3>3. overlapped' \in BOOLEAN
      BY <1>5, <3>2 DEF NotifyEnqueuement, TypeOK
    <3>4. QED
      BY <3>1, <3>3
  <2>2. QED
    BY <1>5, <2>1 DEF NotifyEnqueuement, TypeOK
<1>6. CASE Send(m)
  <2>1. PICK a \in OnSend(m) :
          /\ answer' = [answer EXCEPT ![m] = a]
          /\ accepted' = [accepted EXCEPT ![m] =
                            @ \cup {r \in Recipients : a[r].status = "Submitted"}]
          /\ Notify(m, "Submission", m, 0) \/ Notify(m, "SubmissionFailure", m, 0)
    BY <1>6 DEF Send
  <2>2. todo' \in [Threads -> Seq(Calls)]
    BY <1>1, <2>1, EventNames, Raised
  <2>3. answer' \in [Messages -> [Recipients -> AnswerEntries \cup {NoEntry}]]
    BY <2>1, AnswersTyped DEF TypeOK
  <2>4. accepted' \in [Messages -> SUBSET Recipients]
    BY <2>1 DEF TypeOK
  <2>5. sends' \in [Messages -> 0..MaxSends]
    BY <1>6 DEF Send, TypeOK
  <2>6. stage' \in [Messages -> Stages]
    BY <1>6 DEF Send, TypeOK, Stages
  <2>7. QED
    BY <1>2, <1>6, <2>2, <2>3, <2>4, <2>5, <2>6 DEF Send, TypeOK
<1>7. CASE SendFails(m)
  <2>1. accepted' \in [Messages -> SUBSET Recipients]
    <3>1. AcceptedUnanswered(m) \subseteq SUBSET Recipients
      BY DEF AcceptedUnanswered
    <3>2. PICK some \in AcceptedUnanswered(m) :
            accepted' = [accepted EXCEPT ![m] = @ \cup some]
      BY <1>7 DEF SendFails
    <3>3. QED
      BY <3>1, <3>2 DEF TypeOK
  <2>2. sends' \in [Messages -> 0..MaxSends]
    BY <1>7 DEF SendFails, TypeOK
  <2>3. stage' \in [Messages -> Stages]
    BY <1>7 DEF SendFails, TypeOK, Stages
  <2>4. QED
    BY <1>2, <1>7, <2>1, <2>2, <2>3 DEF SendFails, TypeOK
<1>8. CASE Return(m)
  BY <1>8 DEF Return, TypeOK, Stages
<1>9. QED
  BY <1>3, <1>4, <1>5, <1>6, <1>7, <1>8

(* Types, for the calls of the logs.                                        *)
LEMMA LogTypes ==
  ASSUME TypeOK, NEW t \in Threads, CallsFit(t), LogCall(t),
         \A m \in Messages : StageAgrees(m)
  PROVE  TypeOK'
<1> USE DEF configVars, messageVars, fileVars
<1>1. (overlapped \/ OthersIncomplete(t)) \in BOOLEAN
  OBVIOUS
<1>2. CASE WriteLine(t)
  <2>1. todo' \in [Threads -> Seq(Calls)]
    BY <1>2, Taken DEF WriteLine
  <2>2. QED
    BY <1>1, <1>2, <2>1 DEF WriteLine, TypeOK
<1>3. CASE WriteIndented(t)
  <2>1. todo' \in [Threads -> Seq(Calls)]
    BY <1>3, Taken DEF WriteIndented
  <2>2. (misfiled \/ lastHeader # t) \in BOOLEAN
    OBVIOUS
  <2>3. QED
    BY <1>1, <1>3, <2>1, <2>2 DEF WriteIndented, TypeOK
<1>4. CASE Insert(t)
  <2>1. todo' \in [Threads -> Seq(Calls)] /\ Head(todo[t]) \in Calls
    BY <1>4, Taken DEF Insert
  <2>2. Entry("Inserted", "Null") \in [status : Statuses, reference : References]
    BY DEF Entry, Statuses, References
  <2>3. row' \in [Messages -> [Recipients ->
                              [status : Statuses, reference : References]]]
    BY <1>4, <2>1, <2>2 DEF Insert, TypeOK
  <2>4. QED
    BY <1>4, <2>1, <2>3 DEF Insert, TypeOK
<1>5. CASE Forwarded(t)
  <2>1. TakeCall(t, {"Forwarded"}) /\ "Forwarded" \in RowKinds
    BY <1>5 DEF Forwarded, RowKinds
  <2>2. todo' \in [Threads -> Seq(Calls)] /\ Head(todo[t]).kind = "Forwarded"
    BY <2>1, Taken
  <2>3. t \in Messages /\ Head(todo[t]).message = t
    BY <2>1, <2>2, CallKinds
  <2>4. Head(todo[t]).recipient \in Recipients /\ IsDue(t, Head(todo[t]).recipient)
    BY <2>1, <2>2, <2>3, TakenByMessage
  <2>5. answer[t][Head(todo[t]).recipient] \in AnswerEntries
    BY <2>3, <2>4 DEF StageAgrees
  <2>6. AnswerEntries \subseteq [status : Statuses, reference : References]
    BY DEF AnswerEntries, Entry, Statuses, References
  <2>7. row' \in [Messages -> [Recipients ->
                              [status : Statuses, reference : References]]]
    BY <1>5, <2>3, <2>4, <2>5, <2>6 DEF Forwarded, TypeOK
  <2>8. QED
    BY <1>5, <2>2, <2>7 DEF Forwarded, TypeOK
<1>6. CASE Notified(t)
  <2>1. TakeCall(t, NotificationKinds)
    BY <1>6 DEF Notified
  <2>2. /\ todo' \in [Threads -> Seq(Calls)]
        /\ Head(todo[t]).message \in Messages
        /\ Head(todo[t]).recipient \in Recipients
    BY <2>1, Taken, CallKinds
  <2>3. \A old \in Statuses : NotifiedStatus(Head(todo[t]).kind, old) \in Statuses
    BY DEF NotifiedStatus, Statuses
  <2>4. row' \in [Messages -> [Recipients ->
                              [status : Statuses, reference : References]]]
    <3> DEFINE m == Head(todo[t]).message
               r == Head(todo[t]).recipient
               k == Head(todo[t]).kind
    <3>1. \/ row' = row
          \/ row' = [row EXCEPT ![m][r].status = NotifiedStatus(k, @)]
      BY <1>6 DEF Notified
    <3>2. m \in Messages /\ r \in Recipients
          /\ \A old \in Statuses : NotifiedStatus(k, old) \in Statuses
      BY <2>2, <2>3
    <3> HIDE DEF m, r, k
    <3>3. row[m][r] \in [status : Statuses, reference : References]
      BY <3>2 DEF TypeOK
    <3>4. NotifiedStatus(k, row[m][r].status) \in Statuses
      BY <3>2, <3>3
    <3>5. [row[m][r] EXCEPT !.status = NotifiedStatus(k, @)]
             \in [status : Statuses, reference : References]
      BY <3>3, <3>4
    <3> DEFINE e == [row[m][r] EXCEPT !.status = NotifiedStatus(k, @)]
    <3>6. row' = row \/ row' = [row EXCEPT ![m][r] = e]
      BY <3>1
    <3> HIDE DEF e
    <3>7. e \in [status : Statuses, reference : References]
      BY <3>5 DEF e
    <3> DEFINE rows == [status : Statuses, reference : References]
    <3>8. e \in rows /\ row \in [Messages -> [Recipients -> rows]]
      BY <3>7 DEF TypeOK
    <3> HIDE DEF rows
    <3>9. row' \in [Messages -> [Recipients -> rows]]
      BY <3>2, <3>6, <3>8
    <3>10. QED
      BY <3>9 DEF rows
  <2>5. QED
    BY <1>6, <2>2, <2>4 DEF Notified, TypeOK
<1>7. QED
  BY <1>2, <1>3, <1>4, <1>5, <1>6 DEF LogCall

(* Types, for every step.                                                   *)
LEMMA TypeStep ==
  ASSUME DeliveryInv, [Next]_vars
  PROVE  TypeOK'
<1> USE DEF configVars, messageVars, fileVars
<1>1. /\ TypeOK /\ \A t \in Threads : CallsFit(t)
      /\ \A m \in Messages : StageAgrees(m)
  BY DEF DeliveryInv, MessageInv
<1>2. ASSUME NEW m \in Messages,
             \/ Accept(m) \/ Enqueue(m) \/ NotifyEnqueuement(m)
             \/ Send(m) \/ SendFails(m) \/ Return(m)
      PROVE  TypeOK'
  BY <1>1, <1>2, ThreadsFacts, SenderTypes
<1>3. ASSUME NEW q \in Requests, ProcessRequest(q) PROVE TypeOK'
  <2>1. PICK m \in Messages, code \in NotificationCodes : \E r \in accepted[m] :
          Notify(q, NotificationEvent(code), m, r)
    BY <1>3 DEF ProcessRequest
  <2>2. PICK r \in accepted[m] : Notify(q, NotificationEvent(code), m, r)
    BY <2>1
  <2>3. r \in 0..RecipientCount
    BY <1>1, <2>2, RecipientsFacts DEF TypeOK
  <2>4. todo' \in [Threads -> Seq(Calls)]
    BY <1>1, <2>2, <2>3, EventNames, ThreadsFacts, Raised
  <2>5. owner' \in Processes \cup {"Nobody"}
    BY <1>1, <1>3, ThreadsFacts DEF ProcessRequest, Initialize, TypeOK
  <2>6. QED
    BY <1>1, <1>3, <2>4, <2>5 DEF ProcessRequest, TypeOK
<1>4. ASSUME NEW t \in Threads, LogCall(t) PROVE TypeOK'
  BY <1>1, <1>4, LogTypes
<1>5. ASSUME NEW t \in Threads, Throw(t) PROVE TypeOK'
  <2>1. stage' \in [Messages -> Stages] /\ todo' \in [Threads -> Seq(Calls)]
    <3>1. <<>> \in Seq(Calls)
      OBVIOUS
    <3>2. QED
      BY <1>1, <1>5, <3>1 DEF Throw, TypeOK, Stages
  <2>2. QED
    BY <1>1, <1>5, <2>1 DEF Throw, TypeOK
<1>6. ASSUME NEW p \in Processes, Die(p) PROVE TypeOK'
  <2>1. stage' \in [Messages -> Stages]
    BY <1>1, <1>6 DEF Die, StageAfter, TypeOK, Stages
  <2>2. todo' \in [Threads -> Seq(Calls)]
    <3>1. <<>> \in Seq(Calls)
      OBVIOUS
    <3>2. QED
      BY <1>1, <1>6, <3>1 DEF Die, TypeOK
  <2>3. enqueued' \subseteq Messages /\ owner' \in Processes \cup {"Nobody"}
    BY <1>1, <1>6 DEF Die, TypeOK
  <2>4. QED
    BY <1>1, <1>6, <2>1, <2>2, <2>3 DEF Die, TypeOK
<1>7. CASE UNCHANGED vars
  BY <1>1, <1>7 DEF vars, TypeOK
<1>8. QED
  BY <1>2, <1>3, <1>4, <1>5, <1>6, <1>7 DEF Next

-----------------------------------------------------------------------------
(* What a step may do to the calls of a thread.                            *)
TodoEffect(t) ==
  \/ todo'[t] = todo[t]
  \/ todo'[t] = <<>>
  \/ TakeCall(t, LineKinds \cup RowKinds \cup NotificationKinds)
  \/ /\ t \in Messages
     /\ \E event \in Submissions \cup {"Acceptance"} : Notify(t, event, t, 0)
  \/ /\ t \in Requests
     /\ \E m \in Messages, event \in NotificationKinds : \E r \in accepted[m] :
          Notify(t, event, m, r)

(* What a step does to the calls of any thread.                             *)
LEMMA EveryTodoEffect ==
  ASSUME TypeOK, [Next]_vars, NEW t \in Threads
  PROVE  TodoEffect(t) /\ \A m \in Messages : accepted[m] \subseteq accepted'[m]
<1> USE DEF configVars, messageVars, fileVars
<1>1. ASSUME NEW m \in Messages,
             \/ Accept(m) \/ Enqueue(m) \/ NotifyEnqueuement(m)
             \/ Send(m) \/ SendFails(m) \/ Return(m)
      PROVE  /\ \/ todo' = todo
                \/ \E event \in Submissions \cup {"Acceptance"} :
                     Notify(m, event, m, 0)
             /\ \A n \in Messages : accepted[n] \subseteq accepted'[n]
  <2>1. CASE Accept(m)
    BY <2>1 DEF Accept
  <2>2. CASE Enqueue(m) \/ NotifyEnqueuement(m) \/ Return(m)
    BY <2>2 DEF Enqueue, NotifyEnqueuement, Return
  <2>3. CASE Send(m)
    <3>1. PICK a \in OnSend(m) :
            /\ accepted' = [accepted EXCEPT ![m] =
                              @ \cup {r \in Recipients : a[r].status = "Submitted"}]
            /\ Notify(m, "Submission", m, 0) \/ Notify(m, "SubmissionFailure", m, 0)
      BY <2>3 DEF Send
    <3>2. QED
      BY <3>1, EventNames DEF TypeOK
  <2>4. CASE SendFails(m)
    BY <2>4 DEF SendFails, TypeOK
  <2>5. QED
    BY <1>1, <2>1, <2>2, <2>3, <2>4
<1>2. CASE \E m \in Messages : \/ Accept(m) \/ Enqueue(m) \/ NotifyEnqueuement(m)
                               \/ Send(m) \/ SendFails(m) \/ Return(m)
  <2>1. PICK m \in Messages :
           /\ \/ todo' = todo
              \/ \E event \in Submissions \cup {"Acceptance"} :
                   Notify(m, event, m, 0)
           /\ \A n \in Messages : accepted[n] \subseteq accepted'[n]
    BY <1>1, <1>2
  <2>2. CASE t = m
    BY <2>1, <2>2 DEF TodoEffect
  <2>3. CASE t # m
    BY <2>1, <2>3 DEF TodoEffect, Notify, TypeOK
  <2>4. QED
    BY <2>1, <2>2, <2>3
<1>3. ASSUME NEW q \in Requests, ProcessRequest(q)
      PROVE  TodoEffect(t) /\ accepted' = accepted
  <2>1. PICK m \in Messages, code \in NotificationCodes : \E r \in accepted[m] :
          Notify(q, NotificationEvent(code), m, r)
    BY <1>3 DEF ProcessRequest
  <2>2. PICK r \in accepted[m] : Notify(q, NotificationEvent(code), m, r)
    BY <2>1
  <2>3. CASE t = q
    BY <2>2, <2>3, EventNames, <1>3 DEF TodoEffect, ProcessRequest
  <2>4. CASE t # q
    BY <2>2, <2>4, <1>3 DEF TodoEffect, Notify, TypeOK, ProcessRequest
  <2>5. QED
    BY <2>3, <2>4
<1>4. ASSUME NEW u \in Threads, LogCall(u)
      PROVE  TodoEffect(t) /\ accepted' = accepted
  <2>1. /\ TakeCall(u, LineKinds \cup RowKinds \cup NotificationKinds)
        /\ accepted' = accepted
    BY <1>4 DEF LogCall, WriteLine, WriteIndented, Insert, Forwarded, Notified,
                TakeCall, LineKinds, RowKinds
  <2>2. CASE t = u
    BY <2>1, <2>2 DEF TodoEffect
  <2>3. CASE t # u
    BY <2>1, <2>3 DEF TodoEffect, TakeCall, TypeOK
  <2>4. QED
    BY <2>1, <2>2, <2>3
<1>5. ASSUME NEW u \in Threads, Throw(u)
      PROVE  TodoEffect(t) /\ accepted' = accepted
  BY <1>5 DEF Throw, TodoEffect, TypeOK
<1>6. ASSUME NEW p \in Processes, Die(p)
      PROVE  TodoEffect(t) /\ accepted' = accepted
  BY <1>6 DEF Die, TodoEffect, TypeOK
<1>7. CASE UNCHANGED vars
  BY <1>7 DEF vars, TodoEffect
<1>8. QED
  BY <1>2, <1>3, <1>4, <1>5, <1>6, <1>7 DEF Next

(* The calls of every thread fit its event and the handlers.                *)
LEMMA CallsStep ==
  ASSUME DeliveryInv, [Next]_vars, NEW t \in Threads
  PROVE  CallsFit(t)'
<1>1. /\ TypeOK /\ CallsFit(t) /\ TodoEffect(t)
      /\ \A m \in Messages : accepted[m] \subseteq accepted'[m]
      /\ HasText' = HasText /\ HasSql' = HasSql
  BY EveryTodoEffect, ConfigKept DEF DeliveryInv
<1>2. ASSUME NEW c \in Calls, CallFits(t, c) PROVE CallFits(t, c)'
  BY <1>1, <1>2 DEF CallFits, Calls
<1>3. \A i \in DOMAIN todo[t] : todo[t][i] \in Calls /\ CallFits(t, todo[t][i])
  <2>1. todo[t] \in Seq(Calls)
    BY <1>1 DEF TypeOK
  <2>2. QED
    BY <1>1, <2>1, LenProperties, ElementOfSeq DEF CallsFit
<1>4. CASE todo'[t] = todo[t]
  BY <1>1, <1>2, <1>3, <1>4 DEF CallsFit
<1>5. CASE todo'[t] = <<>>
  BY <1>5 DEF CallsFit, Ordered
<1>6. ASSUME NEW kinds, TakeCall(t, kinds) PROVE CallsFit(t)'
  <2>1. /\ Ordered(todo'[t])
        /\ \A i \in DOMAIN todo'[t] : \E j \in DOMAIN todo[t] :
             todo'[t][i] = todo[t][j]
    BY <1>1, <1>6, Taken
  <2>2. QED
    BY <1>2, <1>3, <2>1 DEF CallsFit
<1>7. ASSUME NEW event \in Events, NEW m \in Messages, NEW r \in 0..RecipientCount,
             Notify(t, event, m, r),
             t \in Messages => event \in Submissions \cup {"Acceptance"} /\ m = t,
             t \in Requests => event \in NotificationKinds /\ r \in accepted[m]
      PROVE  CallsFit(t)'
  <2>1. /\ Ordered(todo'[t]) /\ todo'[t] \in Seq(Calls)
        /\ \A i \in DOMAIN todo'[t] : OfEvent(todo'[t][i], event, m, r)
    BY <1>1, <1>7, Raised
  <2>2. \A i \in DOMAIN todo'[t] : todo'[t][i] \in Calls
    BY <2>1, LenProperties, ElementOfSeq
  <2>3. ASSUME NEW c \in Calls, OfEvent(c, event, m, r) PROVE CallFits(t, c)
    <3>1. /\ c.message = m
          /\ \/ HasText /\ c.kind \in LineKinds
             \/ /\ HasSql /\ c.kind \in SqlKinds(event)
                /\ c.kind = "Insert" => c.recipient = 0
                /\ c.kind = "Forwarded" => c.recipient \in Recipients
                /\ c.kind \in NotificationKinds => c.recipient = r
      BY <2>3 DEF OfEvent
    <3>2. /\ SqlKinds(event) \cap LineKinds = {}
          /\ event \in Submissions \cup {"Acceptance"} => SqlKinds(event) \subseteq RowKinds
          /\ event \in NotificationKinds => SqlKinds(event) = {event}
          /\ NotificationKinds \cap (LineKinds \cup RowKinds) = {}
          /\ "Insert" \notin LineKinds /\ "Forwarded" \notin LineKinds
      BY DEF SqlKinds, LineKinds, RowKinds, NotificationKinds, Submissions, Events
    <3>3. CASE t \in Messages
      BY <1>7, <3>1, <3>2, <3>3, ThreadsFacts DEF CallFits
    <3>4. CASE t \in Requests
      BY <1>7, <3>1, <3>2, <3>4, ThreadsFacts DEF CallFits
    <3>5. QED
      BY <3>3, <3>4, ThreadsFacts
  <2>4. QED
    BY <1>2, <2>1, <2>2, <2>3 DEF CallsFit
<1>8. CASE \E event \in Submissions \cup {"Acceptance"} :
             t \in Messages /\ Notify(t, event, t, 0)
  BY <1>7, <1>8, EventNames, ThreadsFacts
<1>9. CASE /\ t \in Requests
           /\ \E m \in Messages, event \in NotificationKinds : \E r \in accepted[m] :
                Notify(t, event, m, r)
  <2>1. PICK m \in Messages, event \in NotificationKinds : \E r \in accepted[m] :
          Notify(t, event, m, r)
    BY <1>9
  <2>2. PICK r \in accepted[m] : Notify(t, event, m, r)
    BY <2>1
  <2>3. r \in 0..RecipientCount /\ event \in Events
    BY <1>1, <2>2, EventNames DEF TypeOK
  <2>4. QED
    BY <1>7, <1>9, <2>2, <2>3, ThreadsFacts
<1>10. QED
  BY <1>1, <1>4, <1>5, <1>6, <1>8, <1>9 DEF TodoEffect

-----------------------------------------------------------------------------
(* The process of a thread that gets calls holds the file, and no other     *)
(* process has a thread with calls.                                        *)
LEMMA InitializeHolds ==
  ASSUME WritersHoldTheFile, NEW t \in Threads, Initialize(Process(t)), HasText
  PROVE  /\ owner' = Process(t)
         /\ \A u \in Threads : todo[u] # <<>> => owner' = Process(u)
BY ThreadsFacts DEF WritersHoldTheFile, Initialize

(* Who has lines to write is in the process that holds the file.            *)
LEMMA WritersStep ==
  ASSUME DeliveryInv, [Next]_vars
  PROVE  WritersHoldTheFile'
<1> USE DEF configVars, messageVars, fileVars
<1>1. /\ TypeOK /\ WritersHoldTheFile /\ \A t \in Threads : CallsFit(t)
      /\ HasText' = HasText /\ \A t \in Threads : Process(t)' = Process(t)
  BY ConfigKept DEF DeliveryInv
<1>2. SUFFICES ASSUME NEW t \in Threads, HasText, todo'[t] # <<>>
               PROVE  owner' = Process(t)
  BY <1>1 DEF WritersHoldTheFile
<1>3. ASSUME owner' = owner, todo[t] # <<>> PROVE owner' = Process(t)
  BY <1>1, <1>2, <1>3 DEF WritersHoldTheFile
<1>4. ASSUME NEW u \in Threads, Initialize(Process(u)),
             \A v \in Threads \ {u} : todo'[v] = todo[v]
      PROVE  owner' = Process(t)
  BY <1>1, <1>2, <1>4, InitializeHolds
<1>5. ASSUME NEW m \in Messages,
             \/ Accept(m) \/ Enqueue(m) \/ NotifyEnqueuement(m)
             \/ Send(m) \/ SendFails(m) \/ Return(m)
      PROVE  owner' = Process(t)
  <2>1. CASE NotifyEnqueuement(m) \/ Return(m)
    BY <1>2, <1>3, <2>1 DEF NotifyEnqueuement, Return
  <2>2. CASE Accept(m) \/ Enqueue(m) \/ Send(m) \/ SendFails(m)
    <3>1. m \in Threads /\ Initialize(Process(m))
      BY <2>2, ThreadsFacts DEF Accept, Enqueue, Send, SendFails
    <3>2. \A v \in Threads \ {m} : todo'[v] = todo[v]
      BY <1>1, <2>2 DEF Accept, Enqueue, Send, SendFails, Notify, TypeOK
    <3>3. QED
      BY <1>4, <3>1, <3>2
  <2>3. QED
    BY <1>5, <2>1, <2>2
<1>6. ASSUME NEW q \in Requests, ProcessRequest(q) PROVE owner' = Process(t)
  <2>1. q \in Threads /\ Initialize(Process(q))
    BY <1>6, ThreadsFacts DEF ProcessRequest
  <2>2. \A v \in Threads \ {q} : todo'[v] = todo[v]
    BY <1>1, <1>6 DEF ProcessRequest, Notify, TypeOK
  <2>3. QED
    BY <1>4, <2>1, <2>2
<1>7. ASSUME NEW u \in Threads, LogCall(u) PROVE owner' = Process(t)
  <2>1. owner' = owner /\ todo[t] # <<>>
    BY <1>1, <1>2, <1>7
    DEF LogCall, WriteLine, WriteIndented, Insert, Forwarded, Notified,
        TakeCall, TypeOK
  <2>2. QED
    BY <1>3, <2>1
<1>8. ASSUME NEW u \in Threads, Throw(u) PROVE owner' = Process(t)
  BY <1>1, <1>2, <1>3, <1>8 DEF Throw, TypeOK
<1>9. ASSUME NEW p \in Processes, Die(p) PROVE owner' = Process(t)
  <2>1. Process(t) # p /\ todo[t] # <<>>
    BY <1>1, <1>2, <1>9 DEF Die
  <2>2. owner = Process(t) /\ owner' = owner
    BY <1>1, <1>2, <1>9, <2>1 DEF Die, WritersHoldTheFile
  <2>3. QED
    BY <2>2
<1>10. CASE UNCHANGED vars
  BY <1>2, <1>3, <1>10 DEF vars
<1>11. QED
  BY <1>5, <1>6, <1>7, <1>8, <1>9, <1>10 DEF Next

(* A step that writes no line leaves no record incomplete that was not.     *)
Quiet == \A t \in Threads : todo'[t] = todo[t] \/ StartsRecord(todo'[t])

(* A step that leaves the file alone and begins no record.                  *)
LEMMA QuietFile ==
  ASSUME TypeOK, TypeOK', FileAgrees, Quiet, UNCHANGED fileVars
  PROVE  FileAgrees'
<1>1. ASSUME NEW t \in Threads PROVE Incomplete(t)' => Incomplete(t)
  <2>1. CASE todo'[t] = todo[t]
    BY <2>1 DEF Incomplete
  <2>2. CASE StartsRecord(todo'[t])
    <3>1. todo'[t] # <<>> => Head(todo'[t]) = todo'[t][1]
      OBVIOUS
    <3>2. QED
      BY <2>2, <3>1 DEF Incomplete, StartsRecord
  <2>3. QED
    BY <2>1, <2>2 DEF Quiet
<1>2. QED
  BY <1>1 DEF FileAgrees, fileVars

(* The last header belongs to the record being written.                     *)
LEMMA FileStep ==
  ASSUME DeliveryInv, [Next]_vars
  PROVE  FileAgrees'
<1> USE DEF configVars, messageVars, fileVars
<1>1. /\ TypeOK /\ FileAgrees /\ \A t \in Threads : CallsFit(t)
      /\ TypeOK'
  BY TypeStep DEF DeliveryInv
<1>2. StartsRecord(<<>>)
  BY DEF StartsRecord
<1>3. ASSUME NEW m \in Messages,
             \/ Accept(m) \/ Enqueue(m) \/ NotifyEnqueuement(m)
             \/ Send(m) \/ SendFails(m) \/ Return(m)
      PROVE  FileAgrees'
  <2>1. ASSUME NEW event \in Submissions \cup {"Acceptance"}, Notify(m, event, m, 0)
        PROVE  Quiet
    BY <1>1, <2>1, Raised, EventNames, ThreadsFacts DEF Quiet
  <2>2. CASE NotifyEnqueuement(m)
    <3>1. todo' = todo /\ misfiled' = misfiled
      BY <2>2 DEF NotifyEnqueuement
    <3>2. \A t \in Threads : Incomplete(t)' = Incomplete(t)
      BY <3>1 DEF Incomplete
    <3>3. \/ lastHeader' = lastHeader /\ overlapped' = overlapped
          \/ overlapped' = (overlapped \/ \E t \in Threads : Incomplete(t))
      BY <2>2 DEF NotifyEnqueuement
    <3>4. QED
      BY <1>1, <3>1, <3>2, <3>3 DEF FileAgrees
  <2>3. CASE Accept(m)
    BY <1>1, <2>1, <2>3, QuietFile DEF Accept
  <2>4. CASE Enqueue(m) \/ SendFails(m) \/ Return(m)
    BY <1>1, <2>4, QuietFile DEF Quiet, Enqueue, SendFails, Return
  <2>5. CASE Send(m)
    <3>1. Notify(m, "Submission", m, 0) \/ Notify(m, "SubmissionFailure", m, 0)
      BY <2>5 DEF Send
    <3>2. Quiet
      BY <2>1, <3>1, EventNames
    <3>3. QED
      BY <1>1, <2>5, <3>2, QuietFile DEF Send
  <2>6. QED
    BY <1>3, <2>2, <2>3, <2>4, <2>5
<1>4. ASSUME NEW q \in Requests, ProcessRequest(q) PROVE FileAgrees'
  <2>1. PICK m \in Messages, code \in NotificationCodes : \E r \in accepted[m] :
          Notify(q, NotificationEvent(code), m, r)
    BY <1>4 DEF ProcessRequest
  <2>2. PICK r \in accepted[m] : Notify(q, NotificationEvent(code), m, r)
    BY <2>1
  <2>3. r \in 0..RecipientCount
    BY <1>1, <2>2, RecipientsFacts DEF TypeOK
  <2>4. Quiet
    BY <1>1, <2>2, <2>3, EventNames, ThreadsFacts, Raised DEF Quiet
  <2>5. QED
    BY <1>1, <1>4, <2>4, QuietFile DEF ProcessRequest
<1>5. ASSUME NEW t \in Threads, LogCall(t) PROVE FileAgrees'
  <2>1. CASE WriteLine(t) \/ WriteIndented(t)
    <3>1. /\ \A u \in Threads \ {t} : todo'[u] = todo[u]
          /\ Head(todo[t]).kind \in LineKinds
          /\ overlapped' = (overlapped \/ OthersIncomplete(t))
          /\ \/ lastHeader' = t /\ misfiled' = misfiled
             \/ /\ lastHeader' = lastHeader /\ misfiled' = (misfiled \/ lastHeader # t)
                /\ Incomplete(t)
      BY <1>1, <2>1
      DEF WriteLine, WriteIndented, TakeCall, TypeOK, Incomplete, LineKinds
    <3>2. \A u \in Threads \ {t} : Incomplete(u)' = Incomplete(u)
      BY <3>1 DEF Incomplete
    <3>3. QED
      BY <1>1, <3>1, <3>2 DEF FileAgrees, OthersIncomplete
  <2>2. CASE Insert(t) \/ Forwarded(t) \/ Notified(t)
    <3>1. /\ TakeCall(t, RowKinds \cup NotificationKinds)
          /\ UNCHANGED fileVars
      BY <2>2 DEF Insert, Forwarded, Notified, TakeCall, RowKinds
    <3>2. (RowKinds \cup NotificationKinds) \cap LineKinds = {}
      BY DEF RowKinds, NotificationKinds, LineKinds
    <3>3. Quiet
      BY <1>1, <3>1, <3>2, Taken DEF Quiet
    <3>4. QED
      BY <1>1, <3>1, <3>3, QuietFile
  <2>3. QED
    BY <1>5, <2>1, <2>2 DEF LogCall
<1>6. ASSUME NEW t \in Threads, Throw(t) PROVE FileAgrees'
  <2>1. Quiet
    BY <1>1, <1>2, <1>6 DEF Quiet, Throw, TypeOK
  <2>2. QED
    BY <1>1, <1>6, <2>1, QuietFile DEF Throw
<1>7. ASSUME NEW p \in Processes, Die(p) PROVE FileAgrees'
  <2>1. Quiet
    BY <1>1, <1>2, <1>7 DEF Quiet, Die
  <2>2. QED
    BY <1>1, <1>7, <2>1, QuietFile DEF Die
<1>8. CASE UNCHANGED vars
  BY <1>1, <1>8, QuietFile DEF vars, Quiet
<1>9. QED
  BY <1>3, <1>4, <1>5, <1>6, <1>7, <1>8 DEF Next

-----------------------------------------------------------------------------
(* What a step leaves alone of a message.                                  *)
Kept(m) ==
  /\ stage'[m] = stage[m] /\ todo'[m] = todo[m] /\ answer'[m] = answer[m]
  /\ row'[m] = row[m] /\ sends'[m] = sends[m]
  /\ accepted[m] \subseteq accepted'[m]

(* What is due depends on the calls of the message's thread only.           *)
LEMMA KeptDue ==
  ASSUME NEW m \in Messages, todo'[m] = todo[m]
  PROVE  /\ \A r \in Recipients : IsDue(m, r)' <=> IsDue(m, r)
         /\ Has(m, "Insert")' <=> Has(m, "Insert")
BY DEF IsDue, Has

(* A message that a step leaves alone keeps its invariant.                  *)
LEMMA KeptInv ==
  ASSUME NEW m \in Messages, MessageInv(m), Kept(m), path' = path, HasSql' = HasSql
  PROVE  MessageInv(m)'
<1>1. /\ \A r \in Recipients : IsDue(m, r)' <=> IsDue(m, r)
      /\ Has(m, "Insert")' <=> Has(m, "Insert")
  BY KeptDue DEF Kept
<1>2. StageAgrees(m)' /\ RowsAgree(m)'
  BY <1>1 DEF MessageInv, StageAgrees, RowsAgree, Kept
<1>3. \A r \in Recipients :
        AnswerAgrees(m, r)' /\ FirstAgrees(m, r)'
  BY <1>1 DEF MessageInv, AnswerAgrees, FirstAgrees, Kept
<1>4. QED
  BY <1>2, <1>3 DEF MessageInv

(* The same as NothingToDo, of the next state.                              *)
LEMMA NothingToDoNext ==
  ASSUME NEW m \in Messages, todo'[m] = <<>>
  PROVE  ~Has(m, "Insert")' /\ \A r \in Recipients : ~IsDue(m, r)'
BY DEF Has, IsDue

(* The steps of a sender keep what the invariant says of its message.       *)
LEMMA SenderStep ==
  ASSUME TypeOK, NEW m \in Messages, MessageInv(m), HasSql' = HasSql,
         Accept(m) \/ Enqueue(m) \/ Send(m) \/ SendFails(m) \/ Return(m)
  PROVE  MessageInv(m)'
<1> USE DEF configVars, messageVars, fileVars, MessageInv, StageAgrees, RowsAgree,
            AnswerAgrees, FirstAgrees
<1>1. /\ stage \in [Messages -> Stages] /\ sends[m] \in Nat
      /\ accepted \in [Messages -> SUBSET Recipients]
      /\ sends \in [Messages -> 0..MaxSends]
      /\ answer \in [Messages -> [Recipients -> AnswerEntries \cup {NoEntry}]]
      /\ row \in [Messages -> [Recipients -> [status : Statuses,
                                              reference : References]]]
  BY DEF TypeOK
<1>2. /\ todo[m] = <<>> => ~Has(m, "Insert") /\ \A r \in Recipients : ~IsDue(m, r)
      /\ todo'[m] = <<>> => ~Has(m, "Insert")' /\ \A r \in Recipients : ~IsDue(m, r)'
  BY NothingToDo, NothingToDoNext
<1>3. CASE Accept(m)
  <2>1. /\ \A r \in Recipients : ~IsDue(m, r)'
        /\ Has(m, "Insert")' <=> HasSql
    BY <1>3, RaisedByMessage DEF Accept, Submissions
  <2>2. stage'[m] = "Send" /\ stage[m] = "New" /\ path'[m] = "Direct"
    BY <1>1, <1>3 DEF Accept
  <2>3. QED
    BY <1>1, <1>3, <2>1, <2>2 DEF Accept
<1>4. CASE Enqueue(m)
  <2>1. /\ stage'[m] = "Send" /\ stage[m] = "New" /\ todo' = todo
        /\ \A r \in Recipients : row'[m][r] = Entry("Inserted", "Null")
        /\ sends' = sends
    BY <1>1, <1>4 DEF Enqueue
  <2>2. QED
    BY <1>2, <2>1 DEF Entry, Final
<1>5. CASE Send(m)
  <2>1. PICK a \in OnSend(m) :
          /\ answer' = [answer EXCEPT ![m] = a]
          /\ accepted' = [accepted EXCEPT ![m] =
                            @ \cup {r \in Recipients : a[r].status = "Submitted"}]
          /\ Notify(m, "Submission", m, 0) \/ Notify(m, "SubmissionFailure", m, 0)
    BY <1>5 DEF Send
  <2>2. /\ \A r \in Recipients : IsDue(m, r)' <=> HasSql
        /\ ~Has(m, "Insert")'
    BY <2>1, RaisedByMessage, EventNames DEF Submissions
  <2>3. /\ \A r \in Recipients : answer'[m][r] \in AnswerEntries
        /\ accepted[m] \subseteq accepted'[m]
        /\ stage'[m] = "Logging" /\ stage[m] = "Send" /\ todo[m] = <<>>
        /\ sends'[m] = sends[m] + 1 /\ row' = row
    BY <1>1, <1>5, <2>1, AnswersTyped DEF Send
  <2>4. QED
    BY <1>1, <1>2, <2>2, <2>3
<1>6. CASE SendFails(m)
  <2>1. /\ accepted[m] \subseteq accepted'[m]
        /\ stage'[m] = "Unanswered" /\ stage[m] = "Send"
        /\ todo[m] = <<>> /\ todo'[m] = <<>>
        /\ sends'[m] = sends[m] + 1 /\ row' = row
    BY <1>1, <1>6 DEF SendFails
  <2>2. QED
    BY <1>1, <1>2, <2>1
<1>7. CASE Return(m)
  <2>1. /\ stage'[m] = "Done" /\ stage[m] = "Logging"
        /\ todo[m] = <<>> /\ todo'[m] = <<>>
        /\ UNCHANGED <<row, sends, answer, accepted>>
    BY <1>1, <1>7 DEF Return
  <2>2. QED
    BY <1>2, <2>1
<1>8. QED
  BY <1>3, <1>4, <1>5, <1>6, <1>7

(* So do the calls it makes.                                               *)
LEMMA CallStep ==
  ASSUME TypeOK, NEW m \in Messages, CallsFit(m), MessageInv(m), HasSql' = HasSql,
         LogCall(m)
  PROVE  MessageInv(m)'
<1> USE DEF configVars, messageVars, fileVars
<1> DEFINE c == Head(todo[m])
<1>1. TakeCall(m, LineKinds \cup RowKinds \cup NotificationKinds)
  BY DEF LogCall, WriteLine, WriteIndented, Insert, Forwarded, Notified, TakeCall,
         LineKinds, RowKinds
<1>2. /\ c.message = m /\ c.kind \in LineKinds \cup RowKinds
      /\ \A r \in Recipients :
           IsDue(m, r)' <=> IsDue(m, r) /\ c # Call("Forwarded", m, r)
      /\ Has(m, "Insert")' <=> Has(m, "Insert") /\ c.kind # "Insert"
      /\ c.kind = "Insert" => Has(m, "Insert")
      /\ c.kind = "Forwarded" => /\ c.recipient \in Recipients
                                 /\ c = Call("Forwarded", m, c.recipient)
                                 /\ IsDue(m, c.recipient)
      /\ todo[m] # <<>>
  BY <1>1, TakenByMessage DEF TakeCall
<1>3. \A r \in Recipients : c = Call("Forwarded", m, r) =>
        c.kind = "Forwarded" /\ c.recipient = r
  BY DEF Call
<1>4. /\ stage' = stage /\ answer' = answer /\ sends' = sends
      /\ accepted' = accepted /\ path' = path
  BY DEF LogCall, WriteLine, WriteIndented, Insert, Forwarded, Notified
<1>5. \/ c.kind \in LineKinds /\ row' = row
      \/ c.kind = "Insert" /\ Insert(m)
      \/ c.kind = "Forwarded" /\ Forwarded(m)
  <2>1. NotificationKinds \cap (LineKinds \cup RowKinds) = {}
    BY DEF NotificationKinds, LineKinds, RowKinds
  <2>2. ~Notified(m)
    BY <1>2, <2>1 DEF Notified, TakeCall
  <2>3. QED
    BY <2>2 DEF LogCall, WriteLine, WriteIndented, Insert, Forwarded, TakeCall,
                LineKinds
<1>6. row \in [Messages -> [Recipients -> [status : Statuses,
                                           reference : References]]]
      /\ sends[m] \in Nat
  BY DEF TypeOK
<1> HIDE DEF c
<1>7. CASE c.kind \in LineKinds /\ row' = row
  <2>1. /\ \A r \in Recipients : IsDue(m, r)' <=> IsDue(m, r)
        /\ Has(m, "Insert")' <=> Has(m, "Insert")
    BY <1>2, <1>3, <1>7 DEF LineKinds
  <2>2. QED
    BY <1>2, <1>4, <1>7, <2>1
    DEF MessageInv, StageAgrees, RowsAgree, AnswerAgrees, FirstAgrees
<1>8. CASE c.kind = "Insert" /\ Insert(m)
  <2>1. \A r \in Recipients : row'[m][r] = Entry("Inserted", "Null")
    BY <1>2, <1>6, <1>8 DEF Insert, c
  <2>2. /\ \A r \in Recipients : ~IsDue(m, r)'
        /\ ~Has(m, "Insert")' /\ stage[m] = "Send"
    BY <1>2, <1>8 DEF MessageInv, StageAgrees
  <2>3. QED
    BY <1>2, <1>4, <2>1, <2>2
    DEF MessageInv, StageAgrees, RowsAgree, AnswerAgrees, FirstAgrees,
        Entry, Final
<1>9. CASE c.kind = "Forwarded" /\ Forwarded(m)
  <2>0. PICK k \in Recipients : k = c.recipient
    BY <1>2, <1>9
  <2>1. IsDue(m, k) /\ ~IsDue(m, k)' /\ stage[m] = "Logging" /\ sends[m] > 0
    BY <1>2, <1>9, <2>0 DEF MessageInv, StageAgrees
  <2>2. \A r \in Recipients \ {k} : IsDue(m, r)' <=> IsDue(m, r)
    BY <1>2, <1>3, <2>0
  <2>3. Has(m, "Insert")' <=> Has(m, "Insert")
    BY <1>2, <1>9
  <2>4. row' = [row EXCEPT ![m][k] = answer[m][k]]
    BY <1>2, <1>9, <2>0 DEF Forwarded, c
  <2>5. /\ row'[m][k] = answer[m][k]
        /\ \A r \in Recipients \ {k} : row'[m][r] = row[m][r]
    BY <1>6, <2>1, <2>4
  <2>6. answer[m][k] \in AnswerEntries /\ ~Has(m, "Insert")
    BY <2>1 DEF MessageInv, StageAgrees
  <2>7. answer[m][k].status \notin Final \cup {"Absent"}
    BY <2>6 DEF AnswerEntries, Entry, Final
  <2>8. StageAgrees(m)'
    BY <1>2, <1>4, <2>1, <2>2, <2>3 DEF MessageInv, StageAgrees
  <2>9. RowsAgree(m)'
    BY <1>4, <2>1, <2>3, <2>5, <2>6, <2>7 DEF MessageInv, RowsAgree
  <2>10. \A r \in Recipients :
           AnswerAgrees(m, r)' /\ FirstAgrees(m, r)'
    <3> TAKE r \in Recipients
    <3>1. AnswerAgrees(m, r)'
      BY <1>4, <2>1, <2>2, <2>5 DEF MessageInv, AnswerAgrees
    <3>2. FirstAgrees(m, r)'
      BY <1>4, <1>6, <2>1, <2>2, <2>5 DEF MessageInv, FirstAgrees
    <3>3. QED
      BY <3>1, <3>2
  <2>11. QED
    BY <2>8, <2>9, <2>10 DEF MessageInv
<1>10. QED
  BY <1>5, <1>7, <1>8, <1>9

(* A notification changes the status of one row, if that holds a reference. *)
LEMMA NotifiedFacts ==
  ASSUME TypeOK, NEW q \in Threads, CallsFit(q), Notified(q), NEW n \in Messages
  PROVE  LET c == Head(todo[q])
         IN  /\ q \in Requests /\ HasSql
             /\ UNCHANGED <<stage, answer, sends, accepted, path>>
             /\ todo'[n] = todo[n]
             /\ \A r \in Recipients :
                  \/ row'[n][r] = row[n][r]
                  \/ /\ c.message = n /\ c.recipient = r /\ r \in accepted[n]
                     /\ row[n][r].reference # "Null"
                     /\ row'[n][r].reference = row[n][r].reference
                     /\ row'[n][r].status = NotifiedStatus(c.kind, row[n][r].status)
                     /\ c.kind \in NotificationKinds
<1> USE DEF configVars, messageVars, fileVars
<1> DEFINE c == Head(todo[q])
<1>1. TakeCall(q, NotificationKinds)
  BY DEF Notified
<1>2. /\ q \in Requests /\ HasSql /\ c.message \in Messages
      /\ c.recipient \in accepted[c.message] /\ c.recipient \in Recipients
      /\ c.kind \in NotificationKinds
  BY <1>1, Taken, CallKinds
<1>3. UNCHANGED <<stage, answer, sends, accepted, path>> /\ todo'[n] = todo[n]
  BY <1>1, <1>2, Taken, ThreadsFacts DEF Notified
<1>4. IF row[c.message][c.recipient].reference = NotifiedReference
        THEN row' = [row EXCEPT ![c.message][c.recipient].status =
                                  NotifiedStatus(c.kind, @)]
        ELSE row' = row
  BY DEF Notified
<1> HIDE DEF c
<1>5. row \in [Messages -> [Recipients -> [status : Statuses,
                                           reference : References]]]
  BY DEF TypeOK
<1>6. ASSUME NEW r \in Recipients
      PROVE  \/ row'[n][r] = row[n][r]
             \/ /\ c.message = n /\ c.recipient = r
                /\ row[n][r].reference # "Null"
                /\ row'[n][r].reference = row[n][r].reference
                /\ row'[n][r].status = NotifiedStatus(c.kind, row[n][r].status)
  <2>1. CASE row[c.message][c.recipient].reference # NotifiedReference
    BY <1>4, <2>1
  <2>2. CASE /\ row[c.message][c.recipient].reference = NotifiedReference
             /\ c.message = n /\ c.recipient = r
    <3>1. row'[n][r] = [row[n][r] EXCEPT !.status = NotifiedStatus(c.kind, @)]
      BY <1>2, <1>4, <1>5, <2>2
    <3>2. row[n][r] \in [status : Statuses, reference : References]
      BY <1>5
    <3>3. QED
      BY <2>2, <3>1, <3>2 DEF NotifiedReference
  <2>3. CASE /\ row[c.message][c.recipient].reference = NotifiedReference
             /\ c.message # n \/ c.recipient # r
    BY <1>2, <1>4, <1>5, <2>3
  <2>4. QED
    BY <2>1, <2>2, <2>3
<1>7. QED
  BY <1>2, <1>3, <1>6 DEF c

(* A notification makes a status final or leaves it alone.                  *)
LEMMA NotifiedStatusFacts ==
  ASSUME NEW kind \in NotificationKinds, NEW old
  PROVE  NotifiedStatus(kind, old) \in Final \cup {old}
BY DEF NotifiedStatus, NotificationKinds, Final

(* The procedure of a notification keeps the invariant of every message.    *)
LEMMA NotifiedStep ==
  ASSUME TypeOK, NEW q \in Threads, CallsFit(q), Notified(q), NEW n \in Messages,
         MessageInv(n), HasSql' = HasSql
  PROVE  MessageInv(n)'
<1> DEFINE c == Head(todo[q])
<1>1. /\ HasSql /\ UNCHANGED <<stage, answer, sends, accepted, path>>
      /\ todo'[n] = todo[n]
      /\ \A r \in Recipients :
           \/ row'[n][r] = row[n][r]
           \/ /\ r \in accepted[n]
              /\ row[n][r].reference # "Null"
              /\ row'[n][r].reference = row[n][r].reference
              /\ row'[n][r].status \in Final \cup {row[n][r].status}
  BY NotifiedFacts, NotifiedStatusFacts
<1>2. /\ \A r \in Recipients : IsDue(n, r)' <=> IsDue(n, r)
      /\ Has(n, "Insert")' <=> Has(n, "Insert")
  BY <1>1, KeptDue
<1>3. StageAgrees(n)'
  BY <1>1, <1>2 DEF MessageInv, StageAgrees
<1>4. RowsAgree(n)'
  <2>1. ASSUME stage[n] = "New" \/ Has(n, "Insert"), NEW r \in Recipients
        PROVE  row'[n][r] = Entry("Absent", "Null")
    BY <1>1, <2>1 DEF MessageInv, RowsAgree, Entry
  <2>2. ASSUME \A r \in Recipients : row[n][r].status # "Absent",
               NEW r \in Recipients
        PROVE  row'[n][r].status # "Absent"
    BY <1>1, <2>2 DEF Final
  <2>3. QED
    BY <1>1, <1>2, <2>1, <2>2 DEF MessageInv, RowsAgree
<1>5. ASSUME NEW r \in Recipients
      PROVE  AnswerAgrees(n, r)' /\ FirstAgrees(n, r)'
  <2>1. AnswerAgrees(n, r)'
    BY <1>1, <1>2 DEF MessageInv, AnswerAgrees
  <2>2. FirstAgrees(n, r)'
    BY <1>1, <1>2 DEF MessageInv, FirstAgrees
  <2>3. QED
    BY <2>1, <2>2
<1>6. QED
  BY <1>3, <1>4, <1>5 DEF MessageInv

(* A thread that ends, and a process that dies, leave nothing to do.        *)
Ended(m) ==
  /\ stage'[m] = stage[m] \/ stage'[m] = "Stopped"
       \/ (path[m] = "Queue" /\ stage'[m] = "Send"
           /\ stage[m] \in {"Send", "Unanswered", "Logging"})
  /\ stage'[m] = stage[m] => stage[m] \notin {"Unanswered", "Logging"}
                             /\ (stage[m] = "Send" => path[m] = "Queue")
  /\ todo'[m] = <<>>
  /\ UNCHANGED <<answer, sends, accepted, row, path>>

(* A message that an exception or a death has ended keeps it.               *)
LEMMA EndedInv ==
  ASSUME NEW m \in Messages, MessageInv(m), Ended(m), HasSql' = HasSql
  PROVE  MessageInv(m)'
<1>1. /\ ~Has(m, "Insert")' /\ \A r \in Recipients : ~IsDue(m, r)'
      /\ path[m] = "Queue" => ~Has(m, "Insert")
  BY NothingToDoNext DEF Ended, MessageInv, StageAgrees
<1>2. StageAgrees(m)' /\ RowsAgree(m)'
  BY <1>1 DEF MessageInv, StageAgrees, RowsAgree, Ended
<1>3. \A r \in Recipients :
        AnswerAgrees(m, r)' /\ FirstAgrees(m, r)'
  <2> TAKE r \in Recipients
  <2>1. stage'[m] \in {"Logging", "Done"} => stage'[m] = "Done" /\ stage[m] = "Done"
    BY DEF Ended
  <2>2. stage[m] = "Done" => ~IsDue(m, r)
    BY DEF MessageInv, StageAgrees
  <2>3. AnswerAgrees(m, r)'
    BY <1>1, <2>1, <2>2 DEF MessageInv, AnswerAgrees, Ended
  <2>4. FirstAgrees(m, r)'
    BY <1>1 DEF MessageInv, FirstAgrees, Ended
  <2>5. QED
    BY <2>3, <2>4
<1>4. QED
  BY <1>2, <1>3 DEF MessageInv

(* A sender's step leaves the other messages alone,                         *)
LEMMA OtherKept ==
  ASSUME TypeOK, NEW m \in Messages, NEW n \in Messages, n # m,
         \/ Accept(m) \/ Enqueue(m) \/ NotifyEnqueuement(m)
         \/ Send(m) \/ SendFails(m) \/ Return(m)
  PROVE  Kept(n)
<1> USE DEF configVars, messageVars, fileVars, Notify, TypeOK, Kept
<1>1. m \in Threads /\ n \in Threads
  BY ThreadsFacts
<1>2. CASE Accept(m)
  BY <1>1, <1>2 DEF Accept
<1>3. CASE Enqueue(m)
  BY <1>1, <1>3 DEF Enqueue
<1>4. CASE NotifyEnqueuement(m)
  BY <1>1, <1>4 DEF NotifyEnqueuement
<1>5. CASE Send(m)
  BY <1>1, <1>5 DEF Send
<1>6. CASE SendFails(m)
  BY <1>1, <1>6 DEF SendFails
<1>7. CASE Return(m)
  BY <1>1, <1>7 DEF Return
<1>8. QED
  BY <1>2, <1>3, <1>4, <1>5, <1>6, <1>7

(* and so does a call of its log event.                                     *)
LEMMA OtherCallKept ==
  ASSUME TypeOK, NEW t \in Threads, CallsFit(t), NEW n \in Messages, n # t,
         WriteLine(t) \/ WriteIndented(t) \/ Insert(t) \/ Forwarded(t)
  PROVE  Kept(n)
<1> USE DEF configVars, messageVars, fileVars
<1>1. n \in Threads
  BY ThreadsFacts
<1>2. TakeCall(t, LineKinds \cup RowKinds)
  BY DEF WriteLine, WriteIndented, Insert, Forwarded, TakeCall, LineKinds, RowKinds
<1>3. todo'[n] = todo[n]
  BY <1>1, <1>2, Taken
<1>4. UNCHANGED <<stage, answer, sends, accepted>>
  BY DEF WriteLine, WriteIndented, Insert, Forwarded
<1>5. row'[n] = row[n]
  <2>1. CASE WriteLine(t) \/ WriteIndented(t)
    BY <2>1 DEF WriteLine, WriteIndented
  <2>2. CASE Insert(t) \/ Forwarded(t)
    <3>1. Head(todo[t]).kind \in RowKinds
      BY <2>2 DEF Insert, Forwarded, TakeCall, RowKinds
    <3>2. Head(todo[t]).message = t
      BY <1>2, <3>1, CallKinds
    <3>3. QED
      BY <2>2, <3>2 DEF Insert, Forwarded, TypeOK
  <2>3. QED
    BY <2>1, <2>2
<1>6. QED
  BY <1>3, <1>4, <1>5 DEF Kept

(* An exception leaves a message alone or ends it,                          *)
LEMMA ThrowStep ==
  ASSUME TypeOK, NEW t \in Threads, Throw(t), NEW n \in Messages
  PROVE  Kept(n) \/ Ended(n)
<1> USE DEF configVars, messageVars, fileVars
<1>1. n \in Threads
  BY ThreadsFacts
<1>2. CASE n # t
  BY <1>1, <1>2 DEF Throw, Kept, TypeOK
<1>3. CASE n = t
  <2>1. /\ path[n] = "Direct" /\ stage[n] \in {"Send", "Unanswered", "Logging"}
        /\ stage'[n] = "Stopped" /\ todo'[n] = <<>>
        /\ UNCHANGED <<answer, sends, accepted, row, path>>
    BY <1>1, <1>3, ThreadsFacts DEF Throw, TypeOK
  <2>2. QED
    BY <2>1 DEF Ended
<1>4. QED
  BY <1>2, <1>3

(* and so does the death of a process.                                      *)
LEMMA DieStep ==
  ASSUME TypeOK, NEW p \in Processes, Die(p), NEW n \in Messages
  PROVE  Kept(n) \/ Ended(n)
<1> USE DEF configVars, messageVars, fileVars
<1>1. n \in Threads
  BY ThreadsFacts
<1>2. CASE Process(n) # p
  BY <1>1, <1>2 DEF Die, Kept
<1>3. CASE Process(n) = p
  <2>1. /\ stage'[n] = StageAfter(n) /\ todo'[n] = <<>>
        /\ UNCHANGED <<answer, sends, accepted, row, path>>
    BY <1>1, <1>3 DEF Die
  <2>2. QED
    BY <2>1 DEF Ended, StageAfter, TypeOK, Paths
<1>4. QED
  BY <1>2, <1>3

(* Every step keeps the invariant of every message.                         *)
LEMMA MessageStep ==
  ASSUME DeliveryInv, [Next]_vars, NEW n \in Messages
  PROVE  MessageInv(n)'
<1> USE DEF configVars, messageVars, fileVars
<1>1. /\ TypeOK /\ \A t \in Threads : CallsFit(t)
      /\ MessageInv(n) /\ HasSql' = HasSql /\ path' = path /\ n \in Threads
  BY ConfigKept, ThreadsFacts DEF DeliveryInv
<1>2. Kept(n) => MessageInv(n)'
  BY <1>1, KeptInv
<1>3. ASSUME NEW m \in Messages,
             \/ Accept(m) \/ Enqueue(m) \/ NotifyEnqueuement(m)
             \/ Send(m) \/ SendFails(m) \/ Return(m)
      PROVE  MessageInv(n)'
  <2>1. CASE n # m
    BY <1>1, <1>2, <1>3, <2>1, OtherKept
  <2>2. CASE n = m /\ NotifyEnqueuement(m)
    BY <1>2, <2>2 DEF NotifyEnqueuement, Kept
  <2>3. CASE /\ n = m
             /\ Accept(m) \/ Enqueue(m) \/ Send(m) \/ SendFails(m) \/ Return(m)
    BY <1>1, <2>3, SenderStep
  <2>4. QED
    BY <1>3, <2>1, <2>2, <2>3
<1>4. ASSUME NEW q \in Requests, ProcessRequest(q) PROVE MessageInv(n)'
  <2>1. todo'[n] = todo[n]
    BY <1>1, <1>4, ThreadsFacts DEF ProcessRequest, Notify, TypeOK
  <2>2. Kept(n)
    BY <1>4, <2>1 DEF ProcessRequest, Kept
  <2>3. QED
    BY <1>2, <2>2
<1>5. ASSUME NEW t \in Threads, LogCall(t) PROVE MessageInv(n)'
  <2>1. CASE Notified(t)
    BY <1>1, <2>1, NotifiedStep
  <2>2. CASE /\ n # t
             /\ WriteLine(t) \/ WriteIndented(t) \/ Insert(t) \/ Forwarded(t)
    BY <1>1, <1>2, <2>2, OtherCallKept
  <2>3. CASE n = t
    BY <1>1, <1>5, <2>3, CallStep
  <2>4. QED
    BY <1>5, <2>1, <2>2, <2>3 DEF LogCall
<1>6. ASSUME NEW t \in Threads, Throw(t) PROVE MessageInv(n)'
  BY <1>1, <1>2, <1>6, ThrowStep, EndedInv
<1>7. ASSUME NEW p \in Processes, Die(p) PROVE MessageInv(n)'
  BY <1>1, <1>2, <1>7, DieStep, EndedInv
<1>8. CASE UNCHANGED vars
  BY <1>2, <1>8 DEF vars, Kept
<1>9. QED
  BY <1>3, <1>4, <1>5, <1>6, <1>7, <1>8 DEF Next

(* The inductive step.                                                      *)
LEMMA NextInv ==
  ASSUME DeliveryInv, [Next]_vars
  PROVE  DeliveryInv'
<1>1. Threads' = Threads /\ Messages' = Messages
  BY DEF Threads
<1>2. \A t \in Threads : CallsFit(t)'
  BY CallsStep
<1>3. \A m \in Messages : MessageInv(m)'
  BY MessageStep
<1>4. TypeOK' /\ FileAgrees' /\ WritersHoldTheFile'
  BY TypeStep, FileStep, WritersStep
<1>5. QED
  BY <1>1, <1>2, <1>3, <1>4 DEF DeliveryInv

(* The inductive invariant holds in every state.                            *)
LEMMA SpecInv == Spec => []DeliveryInv
BY InitInv, NextInv, PTL DEF Spec

-----------------------------------------------------------------------------
(* Every variable keeps its type: what has to be done, what was answered     *)
(* and what the rows say is what the handlers and gateways can make of it.  *)
THEOREM SpecTypeOK == Spec => []TypeOK
<1>1. DeliveryInv => TypeOK
  BY DEF DeliveryInv
<1>2. QED
  BY <1>1, SpecInv, PTL

(* The rows of a message that is done hold the last answer or what was      *)
(* notified since (SqlServerLogProvider.cs:52-60).                         *)
THEOREM SpecCompleteLog == Spec => []CompleteLog
<1>1. DeliveryInv => CompleteLog
  <2>1. SUFFICES ASSUME DeliveryInv, NEW m \in Messages, NEW r \in Recipients,
                        HasSql, stage[m] = "Done"
                 PROVE  /\ row[m][r].reference = answer[m][r].reference
                        /\ row[m][r].status \in {answer[m][r].status} \cup Final
    BY DEF CompleteLog
  <2>2. ~IsDue(m, r) /\ AnswerAgrees(m, r)
    BY <2>1 DEF DeliveryInv, MessageInv, StageAgrees
  <2>3. QED
    BY <2>1, <2>2 DEF AnswerAgrees
<1>2. QED
  BY <1>1, SpecInv, PTL

(* Lines come below another record's header only when two threads wrote at  *)
(* the same time (TextLogger.cs:47-105).                                   *)
THEOREM SpecLinesFollowHeader == Spec => []LinesFollowHeader
<1>1. DeliveryInv => LinesFollowHeader
  BY DEF DeliveryInv, FileAgrees, LinesFollowHeader
<1>2. QED
  BY <1>1, SpecInv, PTL

(* Only threads of the process that holds the text log's file have lines to *)
(* write (TextLogger.cs:28-35).                                            *)
THEOREM SpecWritersHoldTheFile == Spec => []WritersHoldTheFile
<1>1. DeliveryInv => WritersHoldTheFile
  BY DEF DeliveryInv
<1>2. QED
  BY <1>1, SpecInv, PTL

(* A row that is final becomes another one only if its message was sent     *)
(* more than once.                                                          *)
LEMMA FinalStep ==
  ASSUME DeliveryInv, [Next]_vars, NEW m \in Messages, NEW r \in Recipients,
         row[m][r].status \in Final, row'[m][r].status \notin Final
  PROVE  sends[m] > 1
<1> USE DEF configVars, messageVars, fileVars
<1>1. /\ TypeOK /\ \A t \in Threads : CallsFit(t)
      /\ MessageInv(m) /\ FirstAgrees(m, r) /\ sends[m] \in Nat
      /\ row'[m] # row[m] /\ row' # row
      /\ row[m][r] # Entry("Absent", "Null")
  BY DEF DeliveryInv, MessageInv, TypeOK, Entry, Final
<1>2. ASSUME NEW n \in Messages,
             \/ Accept(n) \/ Enqueue(n) \/ NotifyEnqueuement(n)
             \/ Send(n) \/ SendFails(n) \/ Return(n)
      PROVE  FALSE
  <2>1. n = m
    BY <1>1, <1>2, OtherKept DEF Kept
  <2>2. Enqueue(m)
    BY <1>1, <1>2, <2>1
    DEF Accept, NotifyEnqueuement, Send, SendFails, Return
  <2>3. QED
    BY <1>1, <2>2 DEF Enqueue, MessageInv, RowsAgree
<1>3. ASSUME NEW q \in Requests, ProcessRequest(q) PROVE FALSE
  BY <1>1, <1>3 DEF ProcessRequest
<1>4. ASSUME NEW t \in Threads, LogCall(t) PROVE sends[m] > 1
  <2>1. CASE Notified(t)
    <3>1. row'[m][r] = row[m][r] \/ row'[m][r].status \in Final \cup {row[m][r].status}
      BY <1>1, <2>1, NotifiedFacts, NotifiedStatusFacts
    <3>2. QED
      BY <3>1
  <2>2. CASE WriteLine(t) \/ WriteIndented(t) \/ Insert(t) \/ Forwarded(t)
    <3>1. t = m
      BY <1>1, <2>2, OtherCallKept DEF Kept
    <3>2. Insert(m) \/ Forwarded(m)
      BY <1>1, <2>2, <3>1 DEF WriteLine, WriteIndented
    <3>3. TakeCall(m, {"Insert"}) \/ TakeCall(m, {"Forwarded"})
      BY <3>2 DEF Insert, Forwarded
    <3>4. CASE Insert(m)
      <4>1. Has(m, "Insert")
        BY <1>1, <3>1, <3>4, TakenByMessage DEF Insert, TakeCall
      <4>2. QED
        BY <1>1, <4>1 DEF MessageInv, RowsAgree
    <3>5. CASE Forwarded(m)
      <4>1. /\ TakeCall(m, {"Forwarded"})
            /\ row' = [row EXCEPT ![Head(todo[m]).message][Head(todo[m]).recipient] =
                         answer[Head(todo[m]).message][Head(todo[m]).recipient]]
        BY <3>5 DEF Forwarded
      <4>2. /\ Head(todo[m]).message = m
            /\ Head(todo[m]).recipient \in Recipients
            /\ IsDue(m, Head(todo[m]).recipient)
        BY <1>1, <3>1, <4>1, TakenByMessage DEF TakeCall
      <4>3. Head(todo[m]).recipient = r
        <5> DEFINE q == Head(todo[m]).recipient
        <5>1. row' = [row EXCEPT ![m][q] = answer[m][q]]
          BY <4>1, <4>2
        <5>2. q # r => row'[m][r] = row[m][r]
          BY <1>1, <5>1 DEF TypeOK
        <5>3. QED
          BY <1>1, <5>2
      <4>4. QED
        BY <1>1, <4>2, <4>3 DEF FirstAgrees
    <3>6. QED
      BY <3>2, <3>4, <3>5
  <2>3. QED
    BY <1>4, <2>1, <2>2 DEF LogCall
<1>5. ASSUME NEW t \in Threads, Throw(t) PROVE FALSE
  BY <1>1, <1>5 DEF Throw
<1>6. ASSUME NEW p \in Processes, Die(p) PROVE FALSE
  BY <1>1, <1>6 DEF Die
<1>7. CASE UNCHANGED vars
  BY <1>1, <1>7 DEF vars
<1>8. QED
  BY <1>2, <1>3, <1>4, <1>5, <1>6, <1>7 DEF Next

(* What was notified is taken back only if the message was submitted more   *)
(* than once (SqlServerLogProvider.cs:52-60).                              *)
THEOREM SpecFinalUnlessResent == Spec => FinalUnlessResent
<1>1. ASSUME DeliveryInv, [Next]_vars
      PROVE  [\A m \in Messages, r \in Recipients :
                row[m][r].status \in Final /\ row'[m][r].status \notin Final
                  => sends[m] > 1]_vars
  BY <1>1, FinalStep
<1>2. QED
  BY <1>1, SpecInv, PTL DEF Spec, FinalUnlessResent

-----------------------------------------------------------------------------
(* What RecipientLog sees of a message.                                    *)
DueOf(m) == [r \in Recipients |-> IF IsDue(m, r) THEN answer[m][r] ELSE NoEntry]

NoneDue == [r \in Recipients |-> NoEntry]

SameView(m) ==
  row'[m] = row[m] /\ DueOf(m)' = DueOf(m) /\ sends'[m] = sends[m]

InsertView(m) ==
  /\ \A r \in Recipients : row[m][r].status = "Absent"
  /\ row'[m] = [r \in Recipients |-> Entry("Inserted", "Null")]
  /\ DueOf(m)' = DueOf(m) /\ sends'[m] = sends[m]

SubmitView(m) ==
  /\ DueOf(m) = NoneDue
  /\ DueOf(m)' \in {NoneDue} \cup [Recipients -> AnswerEntries]
  /\ sends'[m] = sends[m] + 1
  /\ row'[m] = row[m]

RecordView(m) ==
  /\ \E r \in Recipients :
       /\ DueOf(m)[r] # NoEntry
       /\ row[m][r].status # "Absent"
       /\ row'[m] = [row[m] EXCEPT ![r] = DueOf(m)[r]]
       /\ DueOf(m)' = [DueOf(m) EXCEPT ![r] = NoEntry]
  /\ sends'[m] = sends[m]

NotifyView(m) ==
  /\ \E r \in Recipients, s \in Final :
       /\ row[m][r].reference # "Null"
       /\ row'[m] = [row[m] EXCEPT ![r].status = s]
  /\ DueOf(m)' = DueOf(m) /\ sends'[m] = sends[m]

(* What RecipientLog sees of a message that a step leaves alone.            *)
LEMMA KeptView ==
  ASSUME NEW m \in Messages, todo'[m] = todo[m], answer'[m] = answer[m],
         row'[m] = row[m], sends'[m] = sends[m]
  PROVE  SameView(m)
BY KeptDue DEF SameView, DueOf

(* The entries of an answer, as a set of records.                           *)
LEMMA AnswerRecords ==
  AnswerEntries = [status : {"Submitted", "AcceptanceFailure"},
                   reference : {"Null", "Own", "Api"}]
<1> DEFINE S == {"Submitted", "AcceptanceFailure"}
           R == {"Null", "Own", "Api"}
<1>1. AnswerEntries = {Entry(s, ref) : s \in S, ref \in R}
  BY DEF AnswerEntries
<1> HIDE DEF S, R
<1>2. ASSUME NEW e \in [status : S, reference : R] PROVE e \in AnswerEntries
  <2>1. e = Entry(e.status, e.reference) /\ e.status \in S /\ e.reference \in R
    BY DEF Entry
  <2>2. QED
    BY <1>1, <2>1
<1>3. ASSUME NEW e \in AnswerEntries PROVE e \in [status : S, reference : R]
  <2>1. PICK s \in S, ref \in R : e = Entry(s, ref)
    BY <1>1
  <2>2. QED
    BY <2>1 DEF Entry
<1>4. QED
  BY <1>2, <1>3 DEF S, R

(* A step that changes the view of one message only is one of RecipientLog. *)
LEMMA ViewStep ==
  ASSUME TypeOK, TypeOK', NEW m \in Messages,
         \A n \in Messages \ {m} : SameView(n),
         \/ SameView(m) \/ InsertView(m) \/ SubmitView(m)
         \/ RecordView(m) \/ NotifyView(m)
  PROVE  Recording!Next \/ UNCHANGED Recording!vars
<1>1. /\ Due = [n \in Messages |-> DueOf(n)]
      /\ Due' = [n \in Messages |-> DueOf(n)']
      /\ Recording!Nothing = NoEntry /\ Recording!NothingDue = NoneDue
      /\ Recording!Answers = {NoneDue} \cup [Recipients -> AnswerEntries]
  <2>1. /\ Due = [n \in Messages |-> DueOf(n)]
        /\ Due' = [n \in Messages |-> DueOf(n)']
    BY DEF Due, DueOf
  <2>2. Recording!Nothing = NoEntry /\ Recording!NothingDue = NoneDue
    BY DEF Recording!Nothing, Recording!NothingDue, NoEntry, Entry, NoneDue
  <2>3. AnswerEntries = [status : {"Submitted", "AcceptanceFailure"},
                         reference : {"Null", "Own", "Api"}]
    BY AnswerRecords
  <2>4. QED
    BY <2>1, <2>2, <2>3 DEF Recording!Answers
<1>2. /\ row = [n \in Messages |-> row[n]] /\ row' = [n \in Messages |-> row'[n]]
      /\ sends = [n \in Messages |-> sends[n]]
      /\ sends' = [n \in Messages |-> sends'[n]]
  BY DEF TypeOK
<1>3. CASE SameView(m)
  <2>1. \A n \in Messages : SameView(n)
    BY <1>3
  <2>2. row' = row /\ sends' = sends /\ Due' = Due
    BY <1>1, <1>2, <2>1 DEF SameView
  <2>3. QED
    BY <2>2 DEF Recording!vars
<1>4. CASE InsertView(m)
  <2>1. Recording!Insert(m)
    BY <1>1, <1>2, <1>4 DEF InsertView, SameView, Recording!Insert, Entry
  <2>2. QED
    BY <2>1 DEF Recording!Next
<1>5. CASE SubmitView(m)
  <2>1. Recording!Submit(m)
    <3>1. /\ row' = row /\ sends' = [sends EXCEPT ![m] = @ + 1]
          /\ Due' = [Due EXCEPT ![m] = DueOf(m)']
      BY <1>1, <1>2, <1>5 DEF SubmitView, SameView
    <3>2. Due[m] = NoneDue /\ DueOf(m)' \in Recording!Answers
      BY <1>1, <1>5 DEF SubmitView
    <3>3. QED
      BY <1>1, <3>1, <3>2 DEF Recording!Submit
  <2>2. QED
    BY <2>1 DEF Recording!Next
<1>6. CASE RecordView(m)
  <2>1. PICK r \in Recipients :
          /\ DueOf(m)[r] # NoEntry
          /\ row[m][r].status # "Absent"
          /\ row'[m] = [row[m] EXCEPT ![r] = DueOf(m)[r]]
          /\ DueOf(m)' = [DueOf(m) EXCEPT ![r] = NoEntry]
    BY <1>6 DEF RecordView
  <2>2. Recording!Record(m, r)
    <3>1. sends' = sends
      BY <1>2, <1>6 DEF RecordView, SameView
    <3>2. row' = [row EXCEPT ![m][r] = DueOf(m)[r]]
      BY <1>2, <2>1 DEF SameView
    <3>3. Due' = [Due EXCEPT ![m][r] = NoEntry]
      BY <1>1, <2>1 DEF SameView
    <3>4. Due[m] = DueOf(m)
      BY <1>1
    <3>5. QED
      BY <1>1, <2>1, <3>1, <3>2, <3>3, <3>4 DEF Recording!Record
  <2>3. QED
    BY <2>2 DEF Recording!Next
<1>7. CASE NotifyView(m)
  <2>1. PICK r \in Recipients, s \in Final :
          /\ row[m][r].reference # "Null"
          /\ row'[m] = [row[m] EXCEPT ![r].status = s]
    BY <1>7 DEF NotifyView
  <2>2. Recording!Notify(m, r)
    <3>1. sends' = sends /\ Due' = Due
      BY <1>1, <1>2, <1>7 DEF NotifyView, SameView
    <3>2. row' = [row EXCEPT ![m][r].status = s]
      BY <1>2, <2>1 DEF SameView
    <3>3. QED
      BY <2>1, <3>1, <3>2 DEF Recording!Notify, Final
  <2>3. QED
    BY <2>2 DEF Recording!Next
<1>8. QED
  BY <1>3, <1>4, <1>5, <1>6, <1>7

(* A sender's step is one of RecipientLog or leaves its view alone.         *)
LEMMA SenderView ==
  ASSUME TypeOK, NEW m \in Messages, MessageInv(m),
         \/ Accept(m) \/ Enqueue(m) \/ NotifyEnqueuement(m)
         \/ Send(m) \/ SendFails(m) \/ Return(m)
  PROVE  SameView(m) \/ InsertView(m) \/ SubmitView(m)
<1> USE DEF configVars, messageVars, fileVars
<1>1. todo[m] = <<>> => DueOf(m) = NoneDue
  BY NothingToDo DEF DueOf, NoneDue
<1>2. CASE Accept(m)
  <2>1. todo[m] = <<>>
    BY <1>2 DEF Accept, MessageInv, StageAgrees
  <2>2. \A r \in Recipients : ~IsDue(m, r)'
    BY <1>2, RaisedByMessage DEF Accept, Submissions
  <2>3. DueOf(m)' = NoneDue
    BY <2>2 DEF DueOf, NoneDue
  <2>4. QED
    BY <1>1, <1>2, <2>1, <2>3 DEF Accept, SameView
<1>3. CASE Enqueue(m)
  <2>1. /\ todo'[m] = todo[m] /\ answer'[m] = answer[m] /\ sends'[m] = sends[m]
        /\ row'[m] = [r \in Recipients |-> Entry("Inserted", "Null")]
        /\ \A r \in Recipients : row[m][r] = Entry("Absent", "Null")
    BY <1>3 DEF Enqueue, MessageInv, RowsAgree, TypeOK
  <2>2. DueOf(m)' = DueOf(m)
    BY <2>1, KeptDue DEF DueOf
  <2>3. QED
    BY <2>1, <2>2 DEF InsertView, Entry
<1>4. CASE NotifyEnqueuement(m) \/ Return(m)
  BY <1>4, KeptView DEF NotifyEnqueuement, Return
<1>5. CASE Send(m)
  <2>1. PICK a \in OnSend(m) :
          /\ answer' = [answer EXCEPT ![m] = a]
          /\ Notify(m, "Submission", m, 0) \/ Notify(m, "SubmissionFailure", m, 0)
    BY <1>5 DEF Send
  <2>2. \A r \in Recipients : IsDue(m, r)' <=> HasSql
    BY <2>1, RaisedByMessage, EventNames DEF Submissions
  <2>3. answer'[m] = a /\ a \in [Recipients -> AnswerEntries]
    BY <2>1, AnswersTyped DEF TypeOK
  <2>4. DueOf(m)' = [r \in Recipients |-> IF HasSql THEN a[r] ELSE NoEntry]
    BY <2>2, <2>3 DEF DueOf
  <2>5. DueOf(m)' \in {NoneDue} \cup [Recipients -> AnswerEntries]
    BY <2>3, <2>4 DEF NoneDue
  <2>6. sends'[m] = sends[m] + 1 /\ row'[m] = row[m] /\ todo[m] = <<>>
    BY <1>5 DEF Send, TypeOK
  <2>7. QED
    BY <1>1, <2>5, <2>6 DEF SubmitView
<1>6. CASE SendFails(m)
  <2>1. /\ sends'[m] = sends[m] + 1 /\ row'[m] = row[m]
        /\ todo[m] = <<>> /\ todo'[m] = <<>>
    BY <1>6 DEF SendFails, TypeOK
  <2>2. DueOf(m)' = NoneDue
    BY <2>1, NothingToDoNext DEF DueOf, NoneDue
  <2>3. QED
    BY <1>1, <2>1, <2>2 DEF SubmitView
<1>7. QED
  BY <1>2, <1>3, <1>4, <1>5, <1>6

(* So is a call of its log event,                                           *)
LEMMA CallView ==
  ASSUME TypeOK, NEW m \in Messages, CallsFit(m), MessageInv(m), LogCall(m),
         ~Notified(m)
  PROVE  SameView(m) \/ InsertView(m) \/ RecordView(m)
<1> USE DEF configVars, messageVars, fileVars
<1>1. row \in [Messages -> [Recipients -> [status : Statuses,
                                           reference : References]]]
      /\ UNCHANGED <<answer, sends>>
  BY DEF TypeOK, LogCall, WriteLine, WriteIndented, Insert, Forwarded, Notified
<1>2. ASSUME NEW kinds, TakeCall(m, kinds), "Forwarded" \notin kinds
      PROVE  DueOf(m)' = DueOf(m)
  <2>1. \A r \in Recipients : Head(todo[m]) # Call("Forwarded", m, r)
    BY <1>2 DEF TakeCall, Call
  <2>2. \A r \in Recipients : IsDue(m, r)' <=> IsDue(m, r)
    BY <1>2, <2>1, TakenByMessage
  <2>3. QED
    BY <1>1, <2>2 DEF DueOf
<1>3. CASE WriteLine(m) \/ WriteIndented(m)
  <2>1. TakeCall(m, LineKinds) /\ "Forwarded" \notin LineKinds /\ row' = row
    BY <1>3 DEF WriteLine, WriteIndented, TakeCall, LineKinds
  <2>2. QED
    BY <1>1, <1>2, <2>1 DEF SameView
<1>4. CASE Insert(m)
  <2>1. /\ TakeCall(m, {"Insert"})
        /\ row' = [row EXCEPT ![Head(todo[m]).message] =
                     [r \in Recipients |-> Entry("Inserted", "Null")]]
    BY <1>4 DEF Insert
  <2>2. Head(todo[m]).message = m /\ Has(m, "Insert")
    BY <2>1, TakenByMessage DEF TakeCall
  <2>3. \A r \in Recipients : row[m][r].status = "Absent"
    BY <2>2 DEF MessageInv, RowsAgree, Entry
  <2>4. QED
    BY <1>1, <1>2, <2>1, <2>2, <2>3 DEF InsertView
<1>5. CASE Forwarded(m)
  <2>1. /\ TakeCall(m, {"Forwarded"})
        /\ row' = [row EXCEPT ![Head(todo[m]).message][Head(todo[m]).recipient] =
                     answer[Head(todo[m]).message][Head(todo[m]).recipient]]
    BY <1>5 DEF Forwarded
  <2>2. /\ Head(todo[m]).message = m /\ Head(todo[m]).recipient \in Recipients
        /\ Head(todo[m]) = Call("Forwarded", m, Head(todo[m]).recipient)
        /\ IsDue(m, Head(todo[m]).recipient)
        /\ \A r \in Recipients :
             IsDue(m, r)' <=> IsDue(m, r) /\ Head(todo[m]) # Call("Forwarded", m, r)
    BY <2>1, TakenByMessage DEF TakeCall
  <2>3. PICK k \in Recipients : k = Head(todo[m]).recipient
    BY <2>2
  <2>4. /\ IsDue(m, k)
        /\ \A r \in Recipients : IsDue(m, r)' <=> IsDue(m, r) /\ r # k
    <3>1. \A r \in Recipients : Call("Forwarded", m, k) = Call("Forwarded", m, r)
                                 <=> r = k
      BY DEF Call
    <3>2. IsDue(m, k) /\ Head(todo[m]) = Call("Forwarded", m, k)
      BY <2>2, <2>3
    <3>3. \A r \in Recipients : IsDue(m, r)' <=> IsDue(m, r) /\ r # k
      BY <2>2, <3>1, <3>2
    <3>4. QED
      BY <3>2, <3>3
  <2>5. DueOf(m)' = [DueOf(m) EXCEPT ![k] = NoEntry]
    BY <1>1, <2>4 DEF DueOf
  <2>6. DueOf(m)[k] = answer[m][k]
    BY <2>4 DEF DueOf
  <2>7. row'[m] = [row[m] EXCEPT ![k] = answer[m][k]]
    BY <1>1, <2>1, <2>2, <2>3
  <2>8. stage[m] = "Logging" /\ answer[m][k] \in AnswerEntries
    BY <2>4 DEF MessageInv, StageAgrees
  <2>9. DueOf(m)[k] # NoEntry
    BY <2>6, <2>8 DEF AnswerEntries, Entry, NoEntry
  <2>10. HasSql
    BY <2>1, ThreadsFacts, CallKinds DEF TakeCall, RowKinds
  <2>11. row[m][k].status # "Absent"
    BY <2>8, <2>10 DEF MessageInv, StageAgrees, RowsAgree
  <2>12. QED
    BY <1>1, <2>5, <2>6, <2>7, <2>9, <2>11 DEF RecordView
<1>6. QED
  BY <1>3, <1>4, <1>5 DEF LogCall

(* and the procedure of a notification.                                     *)
LEMMA NotifiedView ==
  ASSUME TypeOK, TypeOK', NEW q \in Threads, CallsFit(q), Notified(q)
  PROVE  \E m \in Messages :
           /\ SameView(m) \/ NotifyView(m)
           /\ \A n \in Messages \ {m} : SameView(n)
<1> DEFINE c == Head(todo[q])
<1>1. c.message \in Messages
  BY CallKinds DEF Notified
<1>2. PICK m \in Messages : m = c.message
  BY <1>1
<1>3. \A n \in Messages :
        /\ todo'[n] = todo[n] /\ answer'[n] = answer[n] /\ sends'[n] = sends[n]
        /\ \A r \in Recipients :
             \/ row'[n][r] = row[n][r]
             \/ /\ c.message = n /\ c.recipient = r
                /\ row[n][r].reference # "Null"
                /\ row'[n][r].reference = row[n][r].reference
                /\ row'[n][r].status \in Final \cup {row[n][r].status}
  BY NotifiedFacts, NotifiedStatusFacts
<1> HIDE DEF c
<1>4. ASSUME NEW n \in Messages
      PROVE  /\ row[n] \in [Recipients -> [status : Statuses, reference : References]]
             /\ row'[n] \in [Recipients -> [status : Statuses, reference : References]]
  BY DEF TypeOK
<1>5. ASSUME NEW n \in Messages, row'[n] = row[n] PROVE SameView(n)
  BY <1>3, <1>5, KeptView
<1>6. \A n \in Messages \ {m} : SameView(n)
  <2>1. ASSUME NEW n \in Messages \ {m} PROVE row'[n] = row[n]
    <3>1. \A r \in Recipients : row'[n][r] = row[n][r]
      BY <1>2, <1>3
    <3>2. QED
      BY <1>4, <3>1
  <2>2. QED
    BY <1>5, <2>1
<1>7. CASE row'[m] = row[m]
  BY <1>5, <1>6, <1>7
<1>8. CASE row'[m] # row[m]
  <2>1. PICK r \in Recipients : row'[m][r] # row[m][r]
    BY <1>4, <1>8
  <2>2. /\ c.recipient = r /\ row[m][r].reference # "Null"
        /\ row'[m][r].reference = row[m][r].reference
        /\ row'[m][r].status \in Final \cup {row[m][r].status}
        /\ \A k \in Recipients \ {r} : row'[m][k] = row[m][k]
    BY <1>3, <2>1
  <2>3. /\ row[m][r] \in [status : Statuses, reference : References]
        /\ row'[m][r] \in [status : Statuses, reference : References]
    BY <1>4
  <2>4. /\ row'[m][r].status \in Final
        /\ row'[m][r] = [row[m][r] EXCEPT !.status = row'[m][r].status]
    BY <2>1, <2>2, <2>3
  <2>5. row'[m] = [row[m] EXCEPT ![r].status = row'[m][r].status]
    BY <1>4, <2>2, <2>4
  <2>6. DueOf(m)' = DueOf(m) /\ sends'[m] = sends[m]
    BY <1>3, KeptDue DEF DueOf
  <2>7. NotifyView(m)
    BY <2>2, <2>4, <2>5, <2>6 DEF NotifyView
  <2>8. QED
    BY <1>6, <2>7
<1>9. QED
  BY <1>7, <1>8

(* What ends gives its answers up.                                         *)
LEMMA EndView ==
  ASSUME TypeOK, TypeOK',
         \A n \in Messages : Kept(n) \/ Ended(n)
  PROVE  Recording!Next \/ UNCHANGED Recording!vars
<1>1. /\ \A n \in Messages :
           /\ row'[n] = row[n] /\ sends'[n] = sends[n]
           /\ DueOf(n)' = DueOf(n) \/ DueOf(n)' = NoneDue
  <2>1. ASSUME NEW n \in Messages, Kept(n)
        PROVE  row'[n] = row[n] /\ sends'[n] = sends[n] /\ DueOf(n)' = DueOf(n)
    BY <2>1, KeptView DEF Kept, SameView
  <2>2. ASSUME NEW n \in Messages, Ended(n)
        PROVE  row'[n] = row[n] /\ sends'[n] = sends[n] /\ DueOf(n)' = NoneDue
    BY <2>2, NothingToDoNext DEF Ended, DueOf, NoneDue
  <2>3. QED
    BY <2>1, <2>2
<1>2. row' = row /\ sends' = sends
  BY <1>1 DEF TypeOK
<1>3. /\ Due = [n \in Messages |-> DueOf(n)]
      /\ Due' = [n \in Messages |-> DueOf(n)']
      /\ Recording!NothingDue = NoneDue
  BY DEF Due, DueOf, Recording!Nothing, Recording!NothingDue, NoEntry, Entry, NoneDue
<1> DEFINE given == {n \in Messages : DueOf(n)' = NoneDue}
<1>4. Due' = [n \in Messages |-> IF n \in given THEN NoneDue ELSE Due[n]]
  BY <1>1, <1>3
<1>5. Recording!GiveUp
  BY <1>2, <1>3, <1>4 DEF Recording!GiveUp
<1>6. QED
  BY <1>5 DEF Recording!Next

(* Every step is one of RecipientLog or a stutter.                          *)
LEMMA NextRecording ==
  ASSUME DeliveryInv, [Next]_vars
  PROVE  [Recording!Next]_(Recording!vars)
<1> USE DEF configVars, messageVars, fileVars
<1>1. /\ TypeOK /\ TypeOK' /\ \A t \in Threads : CallsFit(t)
      /\ \A m \in Messages : MessageInv(m) /\ m \in Threads
  BY TypeStep, ThreadsFacts DEF DeliveryInv
<1>2. (\A n \in Messages : Kept(n)) => Recording!Next \/ UNCHANGED Recording!vars
  BY <1>1, EndView
<1>3. ASSUME NEW m \in Messages,
             \/ Accept(m) \/ Enqueue(m) \/ NotifyEnqueuement(m)
             \/ Send(m) \/ SendFails(m) \/ Return(m)
      PROVE  Recording!Next \/ UNCHANGED Recording!vars
  <2>1. \A n \in Messages \ {m} : SameView(n)
    BY <1>1, <1>3, OtherKept, KeptView DEF Kept
  <2>2. SameView(m) \/ InsertView(m) \/ SubmitView(m)
    BY <1>1, <1>3, SenderView
  <2>3. QED
    BY <1>1, <2>1, <2>2, ViewStep
<1>4. ASSUME NEW q \in Requests, ProcessRequest(q)
      PROVE  Recording!Next \/ UNCHANGED Recording!vars
  <2>1. \A n \in Messages : todo'[n] = todo[n]
    BY <1>1, <1>4, ThreadsFacts DEF ProcessRequest, Notify, TypeOK
  <2>2. QED
    BY <1>2, <1>4, <2>1 DEF ProcessRequest, Kept
<1>5. ASSUME NEW t \in Threads, LogCall(t)
      PROVE  Recording!Next \/ UNCHANGED Recording!vars
  <2>1. CASE Notified(t)
    <3>1. PICK m \in Messages :
            /\ SameView(m) \/ NotifyView(m)
            /\ \A n \in Messages \ {m} : SameView(n)
      BY <1>1, <2>1, NotifiedView
    <3>2. QED
      BY <1>1, <3>1, ViewStep
  <2>2. CASE t \in Messages /\ ~Notified(t)
    <3>1. \A n \in Messages \ {t} : SameView(n)
      BY <1>1, <1>5, <2>2, OtherCallKept, KeptView DEF Kept, LogCall
    <3>2. SameView(t) \/ InsertView(t) \/ RecordView(t)
      BY <1>1, <1>5, <2>2, CallView
    <3>3. QED
      BY <1>1, <2>2, <3>1, <3>2, ViewStep
  <2>3. CASE t \in Requests /\ ~Notified(t)
    <3>1. \A n \in Messages : n # t
      BY <2>3, ThreadsFacts
    <3>2. \A n \in Messages : Kept(n)
      BY <1>1, <1>5, <2>3, <3>1, OtherCallKept DEF LogCall
    <3>3. QED
      BY <1>2, <3>2
  <2>4. QED
    BY <2>1, <2>2, <2>3, ThreadsFacts
<1>6. ASSUME NEW t \in Threads, Throw(t)
      PROVE  Recording!Next \/ UNCHANGED Recording!vars
  BY <1>1, <1>6, ThrowStep, EndView
<1>7. ASSUME NEW p \in Processes, Die(p)
      PROVE  Recording!Next \/ UNCHANGED Recording!vars
  BY <1>1, <1>7, DieStep, EndView
<1>8. CASE UNCHANGED vars
  BY <1>2, <1>8 DEF vars, Kept
<1>9. QED
  BY <1>3, <1>4, <1>5, <1>6, <1>7, <1>8 DEF Next

(* The events, the handlers and their calls record every answer as          *)
(* RecipientLog says: once, in a row that exists, and a notification        *)
(* changes only a row with the message's own reference                      *)
(* (SqlServerLogProvider.cs:39-75).                                        *)
THEOREM SpecImplementsRecipientLog == Spec => ImplementsRecipientLog
<1>1. Init => Recording!Init
  <2>1. SUFFICES ASSUME Init PROVE Recording!Init
    OBVIOUS
  <2>2. /\ Recording!NothingDue = NoneDue
        /\ Due = [m \in Messages |-> DueOf(m)]
    BY DEF Due, DueOf, Recording!Nothing, Recording!NothingDue, NoEntry, Entry,
           NoneDue
  <2>3. \A m \in Messages : DueOf(m) = NoneDue
    <3>1. \A m \in Messages : todo[m] = <<>>
      BY <2>1 DEF Init, Threads
    <3>2. QED
      BY <3>1, NothingToDo DEF DueOf, NoneDue
  <2>4. Due = [m \in Messages |-> Recording!NothingDue]
    BY <2>2, <2>3
  <2>5. QED
    BY <2>1, <2>4 DEF Init, Recording!Init, Entry
<1>2. QED
  BY <1>1, NextRecording, SpecInv, PTL
  DEF Spec, ImplementsRecipientLog, Recording!Spec
=============================================================================
