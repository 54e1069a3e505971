-------------------------- MODULE StreamRelayProofs --------------------------
(***************************************************************************)
(* Proofs about StreamRelay, for any number of chunks and any size of the  *)
(* buffer.                                                                 *)
(*                                                                         *)
(* The reader's side first: every operation of the page is classified by   *)
(* what it does to the reader (TakesValue, TakesEnd, TakesMessage,         *)
(* LocalMove), so that the steps of the system need not look inside.  A    *)
(* buffered response hands over all its envelopes in a loop; what the loop *)
(* makes of the page is shown by a least counterexample among them.        *)
(*                                                                         *)
(* The pipe next.  That the reader gets the chunks in order depends on     *)
(* all that is still on its way: the queue of the page, then the messages  *)
(* of the content script, then those of the worker continue the numbers of *)
(* what was read, up to the worker's own count while nothing has ended.    *)
(* That a "done" is the end of the whole stream depends on where one can   *)
(* come from; and that abandoned work stops, on who was told: from the     *)
(* reader's leaving to the worker's abort a cancellation is in some        *)
(* message, or the port's end is (Told).                                   *)
(***************************************************************************)
EXTENDS StreamRelay, WellFoundedInduction, TLAPS

---------------------------------------------------------------------------
(* The pages *)

Entries == {Value(n) : n \in 1..(MaxChunks + 1)} \cup {Done} \cup {Failure(f) : f \in Failures}
Readers == {"idle", "waiting", "holding", "ended"}
Outcomes == {"none", "done", "left"} \cup Failures
Pages == [open : BOOLEAN, complete : BOOLEAN, queue : Seq(Entries), reader : Readers,
          returning : BOOLEAN, aborted : BOOLEAN, got : 0..(MaxChunks + 1), outcome : Outcomes,
          out : Seq({"start", "cancel"})]

\* The first n of the entries q are values.
ValuesUpTo(q, n) == \A j \in 1..n : q[j].kind = "value"

\* The number of the value that comes next.
Following(p) == p.got + Len(p.queue) + 1

AwaitsStart(p) == p.out # <<>> /\ p.out[1] = "start"
HasCancel(p) == \E i \in 1..Len(p.out) : p.out[i] = "cancel"

StartFirst(p) == \A i \in 1..Len(p.out) : p.out[i] = "start" => i = 1

\* The values of the queue are numbered on from the last that was read, come
\* before anything else, and are followed by an end once the page is complete.
PageOK(p) ==
    /\ p.reader = "waiting" => p.queue = <<>>
    /\ p.reader = "idle" => p.queue = <<>> /\ ~p.open /\ ~p.complete /\ p.out = <<>> /\ p.got = 0
    /\ p.reader = "ended" => ~p.open
    /\ p.reader # "ended" => p.outcome = "none"
    /\ ~p.complete => Len(p.queue) <= MaxBuffered /\ ValuesUpTo(p.queue, Len(p.queue))
    /\ p.complete /\ p.reader # "ended" => ~ValuesUpTo(p.queue, Len(p.queue))
    /\ Len(p.queue) <= MaxBuffered + 2
    /\ p.open => Len(p.queue) <= MaxBuffered + 1
    /\ p.reader # "ended" => \A i \in 1..Len(p.queue) : p.queue[i].kind = "value" =>
            p.queue[i].n = p.got + i /\ ValuesUpTo(p.queue, i - 1)
    /\ StartFirst(p)

\* A "done" that is or will be read comes after the value n.
DonesOK(p, n) ==
    /\ p.reader # "ended" => \A i \in 1..Len(p.queue) :
          p.queue[i].kind = "done" /\ ValuesUpTo(p.queue, i - 1) => p.got + i = n + 1
    /\ p.outcome = "done" => p.got = n

HasDone(p) == p.outcome = "done" \/ \E i \in 1..Len(p.queue) : p.queue[i].kind = "done"

\* What every operation of the page does, whatever arrives.
Moves(p, q) ==
    /\ q \in Pages /\ PageOK(q) /\ q.reader # "idle"
    /\ AwaitsStart(q) <=> AwaitsStart(p)
    /\ HasCancel(p) => HasCancel(q)
    /\ q.open => p.open
    /\ p.complete => q.complete

---------------------------------------------------------------------------
(* Sequences *)

LEMMA Appended ==
    ASSUME NEW S, NEW s \in Seq(S), NEW e \in S
    PROVE  /\ Append(s, e) \in Seq(S) /\ Len(Append(s, e)) = Len(s) + 1 /\ Len(s) \in Nat
           /\ \A i \in 1..Len(s) : Append(s, e)[i] = s[i]
           /\ Append(s, e)[Len(s) + 1] = e
           /\ s \o <<e>> = Append(s, e) /\ s \o <<>> = s
OBVIOUS

LEMMA Rest ==
    ASSUME NEW S, NEW s \in Seq(S), s # <<>>
    PROVE  /\ Tail(s) \in Seq(S) /\ Len(Tail(s)) = Len(s) - 1 /\ Len(s) \in Nat \ {0}
           /\ \A i \in 1..(Len(s) - 1) : Tail(s)[i] = s[i + 1]
           /\ Head(s) = s[1] /\ Head(s) \in S
OBVIOUS

LEMMA EmptyIs == \A S : <<>> \in Seq(S) /\ Len(<<>>) = 0
OBVIOUS

LEMMA LengthIs ==
    ASSUME NEW S, NEW s \in Seq(S)
    PROVE  Len(s) \in Nat /\ (Len(s) = 0 <=> s = <<>>) /\ \A i \in 1..Len(s) : s[i] \in S
OBVIOUS

---------------------------------------------------------------------------
(* The operators of the page *)

LEMMA EntryIs ==
    /\ \A e \in Entries : /\ e.kind \in {"value", "done"} \cup Failures
                          /\ e.kind = "value" => e.n \in 1..(MaxChunks + 1)
                          /\ e.kind # "value" => e.kind \in Outcomes \ {"none", "left"}
    /\ \A n \in 1..(MaxChunks + 1) : Value(n) \in Entries /\ Value(n).kind = "value" /\ Value(n).n = n
    /\ Done \in Entries /\ Done.kind = "done"
    /\ \A f \in Failures : Failure(f) \in Entries /\ Failure(f).kind = f /\ f # "value" /\ f # "done"
BY DEF Entries, Value, Done, Failure, Failures, Outcomes

\* The fields of a page, which a record of that type is made of.
LEMMA PageIs ==
    ASSUME NEW p \in Pages
    PROVE  /\ p.open \in BOOLEAN /\ p.complete \in BOOLEAN /\ p.queue \in Seq(Entries)
           /\ p.reader \in Readers /\ p.returning \in BOOLEAN /\ p.aborted \in BOOLEAN
           /\ p.got \in 0..(MaxChunks + 1) /\ p.outcome \in Outcomes
           /\ p.out \in Seq({"start", "cancel"})
           /\ Len(p.queue) \in Nat /\ Len(p.out) \in Nat
<1>1. p.queue \in Seq(Entries) /\ p.out \in Seq({"start", "cancel"})
  BY DEF Pages
<1>2. Len(p.queue) \in Nat /\ Len(p.out) \in Nat
  BY <1>1, LengthIs
<1> QED  BY <1>1, <1>2 DEF Pages

\* What a cancellation leaves of the page.
LEMMA CancelIs ==
    ASSUME NEW p \in Pages
    PROVE  /\ Cancel(p) \in Pages /\ Cancel(p).out = Append(p.out, "cancel")
           /\ Cancel(p).open = p.open /\ Cancel(p).complete = p.complete
           /\ Cancel(p).queue = p.queue /\ Cancel(p).reader = p.reader
           /\ Cancel(p).returning = p.returning /\ Cancel(p).aborted = p.aborted
           /\ Cancel(p).got = p.got /\ Cancel(p).outcome = p.outcome
<1>1. Append(p.out, "cancel") \in Seq({"start", "cancel"})
  BY Appended, PageIs
<1> QED  BY <1>1 DEF Cancel, Pages

\* What a cancellation does to the messages of the page.
LEMMA CancelOut ==
    ASSUME NEW p \in Pages, NEW q \in Pages, StartFirst(p),
           q.out \in {p.out, Append(p.out, "cancel")}
    PROVE  /\ AwaitsStart(q) <=> AwaitsStart(p)
           /\ HasCancel(p) => HasCancel(q)
           /\ q.out = Append(p.out, "cancel") => HasCancel(q)
           /\ StartFirst(q)
<1> DEFINE S == {"start", "cancel"}
           c == "cancel"
<1>1. p.out \in Seq(S) /\ c \in S /\ c # "start"
  BY PageIs
<1>2. Len(p.out) \in Nat /\ (Len(p.out) = 0 <=> p.out = <<>>)
  BY <1>1, LengthIs
<1> HIDE DEF S, c
<1>3. CASE q.out = p.out
  <2>1. p.out # Append(p.out, "cancel")
    BY <1>1, <1>2, Appended DEF c
  <2> QED  BY <1>3, <2>1 DEF AwaitsStart, HasCancel, StartFirst
<1>4. CASE q.out = Append(p.out, c)
  <2>1. /\ Len(q.out) = Len(p.out) + 1 /\ q.out[Len(p.out) + 1] = c
        /\ \A i \in 1..Len(p.out) : q.out[i] = p.out[i]
    BY <1>1, <1>4, Appended
  <2>2. q.out # <<>>
    BY <1>2, <2>1, EmptyIs
  <2>3. AwaitsStart(q) <=> AwaitsStart(p)
    BY <1>1, <1>2, <2>1, <2>2 DEF AwaitsStart
  <2>4. HasCancel(q)
    BY <1>2, <2>1 DEF HasCancel, c
  <2>5. StartFirst(q)
    BY <1>1, <1>2, <2>1 DEF StartFirst
  <2> QED  BY <2>3, <2>4, <2>5
<1> QED  BY <1>3, <1>4 DEF c

\* The generator's finally, in any state.
LEMMA FinishIs ==
    ASSUME NEW p \in Pages, NEW o \in Outcomes
    PROVE  /\ Finish(p, o) \in Pages
           /\ Finish(p, o).open = FALSE
           /\ Finish(p, o).complete = (p.complete \/ p.open)
           /\ Finish(p, o).queue = p.queue /\ Finish(p, o).reader = "ended"
           /\ Finish(p, o).returning = p.returning /\ Finish(p, o).aborted = p.aborted
           /\ Finish(p, o).got = p.got /\ Finish(p, o).outcome = o
           /\ Finish(p, o).out = IF p.open /\ ~p.complete THEN Append(p.out, "cancel") ELSE p.out
<1> DEFINE q == IF p.open /\ ~p.complete THEN Cancel(p) ELSE p
           r == [q EXCEPT !.open = FALSE, !.complete = q.complete \/ p.open,
                          !.reader = "ended", !.outcome = o]
<1>1. /\ q \in Pages /\ q.complete = p.complete /\ q.queue = p.queue
      /\ q.returning = p.returning /\ q.aborted = p.aborted /\ q.got = p.got
      /\ q.out = IF p.open /\ ~p.complete THEN Append(p.out, "cancel") ELSE p.out
  BY CancelIs
<1> HIDE DEF q
<1>2. "ended" \in Readers /\ (q.complete \/ p.open) \in BOOLEAN
  BY DEF Readers
<1>3. /\ r \in Pages /\ r.open = FALSE /\ r.complete = (q.complete \/ p.open)
      /\ r.queue = q.queue /\ r.reader = "ended" /\ r.returning = q.returning
      /\ r.aborted = q.aborted /\ r.got = q.got /\ r.outcome = o /\ r.out = q.out
  BY <1>1, <1>2 DEF Pages
<1>4. Finish(p, o) = r
  BY DEF Finish, q
<1> HIDE DEF r
<1> QED  BY <1>1, <1>3, <1>4

\* The reader is leaving, so that it is over with the next entry.
Leaving(p) == p.returning \/ p.aborted

\* A value reaches the reader.
LEMMA HandValue ==
    ASSUME NEW p \in Pages, NEW e \in Entries, e.kind = "value", ~Leaving(p), NEW q, q = Hand(p, e)
    PROVE  /\ q \in Pages /\ q.queue = p.queue /\ q.reader = "holding" /\ q.got = e.n
           /\ q.open = p.open /\ q.complete = p.complete
           /\ q.outcome = p.outcome /\ q.out = p.out
<1>1. q = [p EXCEPT !.reader = "holding", !.got = e.n]
  BY DEF Hand, Leaving
<1>2. e.n \in 0..(MaxChunks + 1) /\ "holding" \in Readers
  BY EntryIs, StreamRelayAssumption DEF Readers
<1> QED  BY <1>1, <1>2 DEF Pages

\* The entry is the last one the reader hears of.
Ended(p, e, q) ==
    /\ q \in Pages /\ q.queue = p.queue /\ q.reader = "ended" /\ q.got = p.got
    /\ q.open = FALSE /\ q.complete = (p.complete \/ p.open)
    /\ q.outcome # "none"
    /\ q.outcome = "done" => e.kind = "done" /\ ~Leaving(p)
    /\ q.out = IF p.open /\ ~p.complete THEN Append(p.out, "cancel") ELSE p.out

LEMMA HandEnd ==
    ASSUME NEW p \in Pages, NEW e \in Entries, Leaving(p) \/ e.kind # "value", NEW q, q = Hand(p, e)
    PROVE  Ended(p, e, q)
<1> DEFINE o == IF Leaving(p) THEN IF p.aborted THEN "cancelled" ELSE "left" ELSE e.kind
<1>1. o \in Outcomes /\ o # "none" /\ (o = "done" => e.kind = "done" /\ ~Leaving(p))
  BY EntryIs DEF Outcomes, Failures
<1>2. q = Finish(p, o)
  BY DEF Hand, Leaving
<1> HIDE DEF o
<1> DEFINE f == Finish(p, o)
<1>3. /\ f \in Pages
      /\ f.open = FALSE
      /\ f.complete = (p.complete \/ p.open)
      /\ f.queue = p.queue /\ f.reader = "ended"
      /\ f.got = p.got /\ f.outcome = o
      /\ f.out = IF p.open /\ ~p.complete THEN Append(p.out, "cancel") ELSE p.out
  BY <1>1, FinishIs
<1> HIDE DEF f
<1>4. q = f
  BY <1>2 DEF f
<1> QED  BY <1>1, <1>3, <1>4 DEF Ended

\* An entry is queued for a reader that is not waiting.
Longer(p, e, q) ==
    /\ q \in Pages /\ q.queue = Append(p.queue, e)
    /\ q.open = p.open /\ q.complete = p.complete
    /\ q.reader = p.reader /\ q.got = p.got
    /\ q.outcome = p.outcome /\ q.out = p.out

LEMMA DeliverIs ==
    ASSUME NEW p \in Pages, NEW e \in Entries, p.reader # "waiting", NEW q, q = Deliver(p, e)
    PROVE  Longer(p, e, q)
<1>1. Append(p.queue, e) \in Seq(Entries)
  BY Appended, PageIs
<1>2. q = [p EXCEPT !.queue = Append(@, e)]
  BY DEF Deliver
<1> QED  BY <1>1, <1>2 DEF Pages, Longer

\* What the arrival of the value n does.
TakesValue(p, q, n) ==
    /\ Moves(p, q)
    /\ q.got = p.got \/ (p.reader = "waiting" /\ q.got = p.got + 1)
    /\ q.reader # "waiting"
    /\ ~q.complete /\ q.reader # "ended" => Following(q) = n + 1
    /\ q.complete => p.complete \/ HasCancel(q)
    /\ ~q.open => ~p.open \/ q.complete
    /\ \A m : DonesOK(p, m) => DonesOK(q, m)
    /\ HasDone(q) => HasDone(p)
    /\ Len(p.queue) <= MaxBuffered + 1 => Len(q.queue) <= MaxBuffered + 1

\* A page that is complete, or whose reader is gone, takes the value nowhere.
LEMMA ValueKept ==
    ASSUME NEW p \in Pages, PageOK(p), p.reader # "idle", NEW n \in 1..(MaxChunks + 1),
           p.complete, NEW q, q = Enqueue(p, Value(n))
    PROVE  TakesValue(p, q, n)
<1>1. q = p
  BY EntryIs DEF Enqueue
<1>2. p.reader # "waiting"
  BY EmptyIs DEF PageOK, ValuesUpTo
<1> QED  BY <1>1, <1>2 DEF TakesValue, Moves

\* The buffer is full: the stream is cancelled.
LEMMA ValueOverflows ==
    ASSUME NEW p \in Pages, PageOK(p), p.reader # "idle", NEW n \in 1..(MaxChunks + 1),
           ~p.complete, Len(p.queue) >= MaxBuffered, NEW q, q = Enqueue(p, Value(n))
    PROVE  TakesValue(p, q, n)
<1> DEFINE e == Value(n)
           r == [p EXCEPT !.complete = TRUE]
           c == Cancel(r)
           f == Failure("overflow")
<1>1. e \in Entries /\ e.kind = "value" /\ f \in Entries /\ f.kind = "overflow"
  BY EntryIs DEF Failures
<1>2. Len(p.queue) \in Nat /\ p.queue \in Seq(Entries) /\ p.reader \in Readers /\ p.got \in Nat
  BY PageIs
<1>3. q = Deliver(c, f)
  BY <1>1 DEF Enqueue
<1>4. /\ r \in Pages /\ r.complete = TRUE /\ r.open = p.open /\ r.queue = p.queue
      /\ r.reader = p.reader /\ r.got = p.got /\ r.outcome = p.outcome /\ r.out = p.out
  BY DEF Pages
<1> HIDE DEF e, r, f
<1>5. /\ c \in Pages /\ c.out = Append(p.out, "cancel") /\ c.complete = TRUE /\ c.open = p.open
      /\ c.queue = p.queue /\ c.reader = p.reader /\ c.got = p.got /\ c.outcome = p.outcome
  BY <1>4, CancelIs
<1> HIDE DEF c
<1>6. p.reader # "waiting" /\ Len(p.queue) = MaxBuffered
  BY <1>2, EmptyIs, StreamRelayAssumption DEF PageOK
<1>7. /\ q \in Pages /\ q.queue = Append(p.queue, f) /\ q.open = p.open /\ q.complete = TRUE
      /\ q.reader = p.reader /\ q.got = p.got /\ q.outcome = p.outcome
      /\ q.out = Append(p.out, "cancel")
  <2>1. Longer(c, f, q)
    BY <1>1, <1>3, <1>5, <1>6, DeliverIs
  <2> QED  BY <1>5, <2>1 DEF Longer
<1>8. /\ Len(q.queue) = Len(p.queue) + 1 /\ q.queue[Len(p.queue) + 1] = f
      /\ \A i \in 1..Len(p.queue) : q.queue[i] = p.queue[i]
  BY <1>1, <1>2, <1>7, Appended
<1>9. /\ StartFirst(q) /\ (AwaitsStart(q) <=> AwaitsStart(p)) /\ HasCancel(q)
  BY <1>7, CancelOut DEF PageOK
<1>10. ~ValuesUpTo(q.queue, Len(q.queue))
  BY <1>1, <1>2, <1>8 DEF ValuesUpTo
<1>11. ASSUME q.reader # "ended", NEW i \in 1..Len(q.queue), q.queue[i].kind = "value"
       PROVE  q.queue[i].n = q.got + i /\ ValuesUpTo(q.queue, i - 1)
  <2>1. i \in 1..Len(p.queue) /\ q.queue[i] = p.queue[i]
    BY <1>1, <1>2, <1>8, <1>11
  <2> QED  BY <1>2, <1>7, <1>8, <1>11, <2>1 DEF PageOK, ValuesUpTo
<1>12. PageOK(q)
  BY <1>2, <1>6, <1>7, <1>8, <1>9, <1>10, <1>11, StreamRelayAssumption DEF PageOK
<1>13. ASSUME NEW m, DonesOK(p, m)
       PROVE  DonesOK(q, m)
  <2>1. ASSUME q.reader # "ended", NEW i \in 1..Len(q.queue), q.queue[i].kind = "done",
               ValuesUpTo(q.queue, i - 1)
        PROVE  q.got + i = m + 1
    <3>1. i \in 1..Len(p.queue) /\ q.queue[i] = p.queue[i]
      BY <1>1, <1>2, <1>8, <2>1
    <3>2. ValuesUpTo(p.queue, i - 1)
      <4>1. \A j \in 1..(i - 1) : j \in 1..Len(p.queue) /\ q.queue[j] = p.queue[j]
        BY <1>2, <1>8, <3>1
      <4> QED  BY <2>1, <4>1 DEF ValuesUpTo
    <3> QED  BY <1>7, <1>13, <2>1, <3>1, <3>2 DEF DonesOK
  <2> QED  BY <1>7, <1>13, <2>1 DEF DonesOK
<1>14. HasDone(q) => HasDone(p)
  BY <1>1, <1>2, <1>7, <1>8 DEF HasDone
<1>15. Moves(p, q)
  BY <1>7, <1>9, <1>12 DEF Moves
<1> QED  BY <1>2, <1>6, <1>7, <1>8, <1>9, <1>13, <1>14, <1>15, StreamRelayAssumption
            DEF TakesValue

\* The value is delivered to the reader that waits, or queued.
LEMMA ValueArrives ==
    ASSUME NEW p \in Pages, PageOK(p), p.reader # "idle", NEW n \in 1..(MaxChunks + 1),
           ~p.complete, Len(p.queue) < MaxBuffered, p.reader # "ended" => n = Following(p),
           NEW q, q = Enqueue(p, Value(n))
    PROVE  TakesValue(p, q, n)
<1> DEFINE e == Value(n)
<1>1. e \in Entries /\ e.kind = "value" /\ e.n = n
  BY EntryIs
<1>2. /\ Len(p.queue) \in Nat
      /\ p.queue \in Seq(Entries)
      /\ p.reader \in Readers
      /\ p.got \in Nat
      /\ p.open \in BOOLEAN
  BY PageIs
<1>3. q = Deliver(p, e)
  BY <1>1, <1>2, StreamRelayAssumption DEF Enqueue
<1> HIDE DEF e
<1>4. CASE p.reader = "waiting" /\ ~Leaving(p)
  <2>1. /\ q \in Pages /\ q.queue = p.queue /\ q.reader = "holding" /\ q.got = n
        /\ q.open = p.open /\ q.complete = p.complete /\ q.outcome = p.outcome /\ q.out = p.out
    <3>1. q = Hand(p, e)
      BY <1>3, <1>4 DEF Deliver
    <3> QED  BY <1>1, <1>4, <3>1, HandValue
  <2>2. p.queue = <<>> /\ Len(p.queue) = 0 /\ n = p.got + 1 /\ p.outcome = "none"
    BY <1>2, <1>4, EmptyIs DEF PageOK, Following
  <2>3. StartFirst(q) /\ (AwaitsStart(q) <=> AwaitsStart(p)) /\ (HasCancel(p) => HasCancel(q))
    BY <2>1, CancelOut DEF PageOK
  <2>4. PageOK(q)
    BY <1>4, <2>1, <2>2, <2>3, StreamRelayAssumption DEF PageOK, ValuesUpTo
  <2>5. Moves(p, q)
    BY <2>1, <2>3, <2>4 DEF Moves
  <2>6. /\ Following(q) = n + 1 /\ (HasDone(q) => HasDone(p))
        /\ \A m : DonesOK(p, m) => DonesOK(q, m)
    BY <2>1, <2>2 DEF DonesOK, HasDone, Following
  <2> QED  BY <1>4, <2>1, <2>2, <2>5, <2>6 DEF TakesValue
<1>5. CASE p.reader = "waiting" /\ Leaving(p)
  <2>1. /\ q \in Pages /\ q.queue = p.queue /\ q.reader = "ended" /\ q.got = p.got
        /\ q.open = FALSE /\ q.complete = (p.complete \/ p.open)
        /\ q.outcome # "none" /\ q.outcome # "done"
        /\ q.out = IF p.open /\ ~p.complete THEN Append(p.out, "cancel") ELSE p.out
    <3>1. q = Hand(p, e)
      BY <1>3, <1>5 DEF Deliver
    <3>2. Ended(p, e, q)
      BY <1>1, <1>5, <3>1, HandEnd
    <3> QED  BY <1>1, <3>2 DEF Ended
  <2>2. p.queue = <<>> /\ Len(p.queue) = 0
    BY <1>2, <1>5, EmptyIs DEF PageOK
  <2>3. /\ StartFirst(q) /\ (AwaitsStart(q) <=> AwaitsStart(p)) /\ (HasCancel(p) => HasCancel(q))
        /\ q.complete => HasCancel(q)
    BY <2>1, CancelOut DEF PageOK
  <2>4. PageOK(q)
    BY <2>1, <2>2, <2>3, StreamRelayAssumption DEF PageOK, ValuesUpTo
  <2>5. Moves(p, q)
    BY <2>1, <2>3, <2>4 DEF Moves
  <2>6. /\ HasDone(q) => HasDone(p)
        /\ \A m : DonesOK(p, m) => DonesOK(q, m)
    BY <2>1, <2>2 DEF DonesOK, HasDone
  <2> QED  BY <1>5, <2>1, <2>3, <2>5, <2>6 DEF TakesValue
<1>6. CASE p.reader # "waiting"
  <2>1. /\ q \in Pages /\ q.queue = Append(p.queue, e) /\ q.open = p.open
        /\ q.complete = p.complete /\ q.reader = p.reader /\ q.got = p.got
        /\ q.outcome = p.outcome /\ q.out = p.out
    <3>1. Longer(p, e, q)
      BY <1>1, <1>3, <1>6, DeliverIs
    <3> QED  BY <3>1 DEF Longer
  <2>2. /\ Len(q.queue) = Len(p.queue) + 1 /\ q.queue[Len(p.queue) + 1] = e
        /\ \A i \in 1..Len(p.queue) : q.queue[i] = p.queue[i]
    BY <1>1, <1>2, <2>1, Appended
  <2>3. ValuesUpTo(p.queue, Len(p.queue)) /\ Len(q.queue) <= MaxBuffered
    BY <1>2, <2>2, StreamRelayAssumption DEF PageOK
  <2>4. ValuesUpTo(q.queue, Len(q.queue))
    <3>1. \A i \in 1..Len(p.queue) : q.queue[i].kind = "value"
      BY <2>2, <2>3 DEF ValuesUpTo
    <3>2. \A i \in 1..Len(q.queue) : i \in 1..Len(p.queue) \/ i = Len(p.queue) + 1
      BY <1>2, <2>2
    <3> QED  BY <1>1, <2>2, <3>1, <3>2 DEF ValuesUpTo
  <2>5. ASSUME q.reader # "ended", NEW i \in 1..Len(q.queue)
        PROVE  q.queue[i].n = q.got + i /\ ValuesUpTo(q.queue, i - 1)
    <3>1. ValuesUpTo(q.queue, i - 1)
      BY <1>2, <2>2, <2>4 DEF ValuesUpTo
    <3>2. CASE i \in 1..Len(p.queue)
      BY <1>2, <2>1, <2>2, <2>3, <2>5, <3>1, <3>2 DEF PageOK, ValuesUpTo
    <3>3. CASE i = Len(p.queue) + 1
      <4>1. q.queue[i] = e /\ q.reader = p.reader /\ q.got = p.got
        BY <2>1, <2>2, <3>3
      <4>2. n = p.got + i
        BY <1>2, <2>5, <3>3, <4>1 DEF Following
      <4> QED  BY <1>1, <3>1, <4>1, <4>2
    <3> QED  BY <1>2, <2>2, <3>2, <3>3
  <2>6. StartFirst(q) /\ (AwaitsStart(q) <=> AwaitsStart(p)) /\ (HasCancel(p) => HasCancel(q))
    BY <2>1, CancelOut DEF PageOK
  <2>7. PageOK(q)
    BY <1>2, <1>6, <2>1, <2>2, <2>3, <2>4, <2>5, <2>6, StreamRelayAssumption DEF PageOK
  <2>8. ASSUME NEW m, DonesOK(p, m)
        PROVE  DonesOK(q, m)
    <3>1. \A i \in 1..Len(q.queue) : q.queue[i].kind # "done"
      BY <2>4 DEF ValuesUpTo
    <3> QED  BY <2>1, <2>8, <3>1 DEF DonesOK
  <2>9. HasDone(q) => HasDone(p)
    BY <1>1, <1>2, <2>1, <2>2 DEF HasDone
  <2>10. Moves(p, q)
    BY <2>1, <2>6, <2>7 DEF Moves
  <2>11. q.reader # "ended" => Following(q) = n + 1
    <3>1. Following(q) = p.got + (Len(p.queue) + 1) + 1
      BY <2>1, <2>2 DEF Following
    <3>2. p.reader # "ended" => n = p.got + Len(p.queue) + 1
      BY DEF Following
    <3>3. p.got + (Len(p.queue) + 1) + 1 = (p.got + Len(p.queue) + 1) + 1
      BY <1>2
    <3>4. q.reader = p.reader
      BY <2>1
    <3> QED  BY <3>1, <3>2, <3>3, <3>4
  <2> QED  BY <1>2, <1>6, <2>1, <2>2, <2>3, <2>8, <2>9, <2>10, <2>11, StreamRelayAssumption
              DEF TakesValue
<1> QED  BY <1>4, <1>5, <1>6

\* Together: whatever the state of the page.
LEMMA ValueTaken ==
    ASSUME NEW p \in Pages, PageOK(p), p.reader # "idle", NEW n \in 1..(MaxChunks + 1),
           ~p.complete /\ p.reader # "ended" => n = Following(p), NEW q, q = Enqueue(p, Value(n))
    PROVE  TakesValue(p, q, n)
<1>1. Len(p.queue) \in Nat
  BY PageIs
<1>2. CASE p.complete
  BY <1>2, ValueKept
<1>3. CASE ~p.complete /\ Len(p.queue) >= MaxBuffered
  BY <1>3, ValueOverflows
<1>4. CASE ~p.complete /\ Len(p.queue) < MaxBuffered
  BY <1>4, ValueArrives
<1> QED  BY <1>1, <1>2, <1>3, <1>4, StreamRelayAssumption

---------------------------------------------------------------------------
(* The end of a stream: s is the page p, no longer pending. *)

Over(p, s) ==
    /\ s \in Pages /\ s.complete = TRUE /\ s.open = FALSE
    /\ s.queue = p.queue /\ s.reader = p.reader /\ s.got = p.got
    /\ s.outcome = p.outcome /\ s.out = p.out

\* What the arrival of an entry that is not a value does.
TakesEnd(p, q) ==
    /\ Moves(p, q)
    /\ q.complete = TRUE /\ q.open = FALSE /\ q.got = p.got /\ q.out = p.out
    /\ q.reader \in {p.reader, "ended"} /\ q.reader # "waiting"

\* The end e comes after the value m, if it is one that counts.
EndsAt(p, e, m) == e.kind = "done" => Following(p) = m + 1 \/ p.complete \/ p.reader = "ended"

\* It is delivered to the reader that waits, or queued.
LEMMA EndArrives ==
    ASSUME NEW p \in Pages, PageOK(p), p.reader # "idle", Len(p.queue) <= MaxBuffered + 1,
           NEW s, Over(p, s), NEW e \in Entries, e.kind # "value", NEW q, q = Deliver(s, e)
    PROVE  /\ TakesEnd(p, q)
           /\ \A m \in Nat : DonesOK(p, m) /\ EndsAt(p, e, m) => DonesOK(q, m)
           /\ HasDone(q) => HasDone(p) \/ e.kind = "done"
<1>1. /\ Len(p.queue) \in Nat
      /\ p.queue \in Seq(Entries)
      /\ p.reader \in Readers
      /\ p.got \in Nat
  BY PageIs
<1>2. CASE p.reader = "waiting"
  <2>1. /\ q \in Pages /\ q.queue = s.queue /\ q.reader = "ended" /\ q.got = s.got
        /\ q.open = FALSE /\ q.complete = TRUE /\ q.outcome # "none"
        /\ q.outcome = "done" => e.kind = "done"
        /\ q.out = s.out
    <3>1. q = Hand(s, e)
      BY <1>2 DEF Deliver, Over
    <3>2. s \in Pages /\ s.complete = TRUE
      BY DEF Over
    <3>3. Ended(s, e, q)
      BY <3>1, <3>2, HandEnd
    <3> QED  BY <3>2, <3>3 DEF Ended
  <2>2. p.queue = <<>> /\ Len(p.queue) = 0 /\ ~p.complete
    BY <1>1, <1>2, EmptyIs DEF PageOK, ValuesUpTo
  <2>3. q.queue = p.queue /\ q.got = p.got /\ q.out = p.out
    BY <2>1 DEF Over
  <2>4. StartFirst(q) /\ (AwaitsStart(q) <=> AwaitsStart(p)) /\ (HasCancel(p) => HasCancel(q))
    BY <2>1, <2>3, CancelOut DEF PageOK
  <2>5. PageOK(q)
    BY <2>1, <2>2, <2>3, <2>4, StreamRelayAssumption DEF PageOK, ValuesUpTo
  <2>6. TakesEnd(p, q)
    BY <2>1, <2>3, <2>4, <2>5 DEF TakesEnd, Moves
  <2>7. ASSUME NEW m \in Nat, DonesOK(p, m), EndsAt(p, e, m)
        PROVE  DonesOK(q, m)
    BY <1>1, <1>2, <2>1, <2>2, <2>3, <2>7 DEF DonesOK, EndsAt, Following
  <2>8. HasDone(q) => HasDone(p) \/ e.kind = "done"
    BY <2>1, <2>3 DEF HasDone
  <2> QED  BY <2>6, <2>7, <2>8
<1>3. CASE p.reader # "waiting"
  <2>1. /\ q \in Pages /\ q.queue = Append(p.queue, e) /\ q.open = FALSE /\ q.complete = TRUE
        /\ q.reader = p.reader /\ q.got = p.got /\ q.outcome = p.outcome /\ q.out = p.out
    <3>1. s \in Pages /\ s.reader # "waiting"
      BY <1>3 DEF Over
    <3>2. Longer(s, e, q)
      BY <3>1, DeliverIs
    <3> QED  BY <3>2 DEF Over, Longer
  <2>2. /\ Len(q.queue) = Len(p.queue) + 1 /\ q.queue[Len(p.queue) + 1] = e
        /\ \A i \in 1..Len(p.queue) : q.queue[i] = p.queue[i]
    BY <1>1, <2>1, Appended
  <2>3. StartFirst(q) /\ (AwaitsStart(q) <=> AwaitsStart(p)) /\ (HasCancel(p) => HasCancel(q))
    BY <2>1, CancelOut DEF PageOK
  <2>4. ~ValuesUpTo(q.queue, Len(q.queue))
    BY <1>1, <2>2 DEF ValuesUpTo
  <2>5. ASSUME q.reader # "ended", NEW i \in 1..Len(q.queue), q.queue[i].kind = "value"
        PROVE  q.queue[i].n = q.got + i /\ ValuesUpTo(q.queue, i - 1)
    <3>1. i \in 1..Len(p.queue) /\ q.queue[i] = p.queue[i]
      BY <1>1, <2>2, <2>5
    <3> QED  BY <1>1, <2>1, <2>2, <2>5, <3>1 DEF PageOK, ValuesUpTo
  <2>6. PageOK(q)
    <3>1. Len(q.queue) <= MaxBuffered + 2 /\ q.complete /\ ~q.open /\ q.reader # "waiting"
          /\ q.reader # "idle"
      BY <1>1, <1>3, <2>1, <2>2, StreamRelayAssumption
    <3>2. q.reader # "ended" => q.outcome = "none"
      BY <2>1 DEF PageOK
    <3> QED  BY <2>3, <2>4, <2>5, <3>1, <3>2 DEF PageOK
  <2>7. TakesEnd(p, q)
    BY <1>3, <2>1, <2>3, <2>6 DEF TakesEnd, Moves
  <2>8. ASSUME NEW m \in Nat, DonesOK(p, m), EndsAt(p, e, m)
        PROVE  DonesOK(q, m)
    <3>1. ASSUME q.reader # "ended", NEW i \in 1..Len(q.queue), q.queue[i].kind = "done",
                 ValuesUpTo(q.queue, i - 1)
          PROVE  q.got + i = m + 1
      <4>1. ValuesUpTo(p.queue, i - 1)
        <5>1. \A j \in 1..(i - 1) : j \in 1..Len(p.queue) /\ q.queue[j] = p.queue[j]
          BY <1>1, <2>2
        <5> QED  BY <3>1, <5>1 DEF ValuesUpTo
      <4>2. CASE i \in 1..Len(p.queue)
        BY <2>1, <2>2, <2>8, <3>1, <4>1, <4>2 DEF DonesOK
      <4>3. CASE i = Len(p.queue) + 1
        <5>1. e.kind = "done" /\ ValuesUpTo(p.queue, Len(p.queue)) /\ p.reader # "ended"
          BY <1>1, <2>1, <2>2, <3>1, <4>1, <4>3
        <5>2. ~p.complete
          BY <5>1 DEF PageOK
        <5>3. Following(p) = m + 1
          BY <2>8, <5>1, <5>2 DEF EndsAt
        <5> QED  BY <1>1, <2>1, <4>3, <5>3 DEF Following
      <4> QED  BY <1>1, <2>2, <4>2, <4>3
    <3> QED  BY <2>1, <2>8, <3>1 DEF DonesOK
  <2>9. HasDone(q) => HasDone(p) \/ e.kind = "done"
    BY <1>1, <2>1, <2>2 DEF HasDone
  <2> QED  BY <2>7, <2>8, <2>9
<1> QED  BY <1>2, <1>3

---------------------------------------------------------------------------
(* The steps of the reader and of the timer *)

\* What a step of the reader or of a timer does.
LocalMove(p, q) ==
    /\ Moves(p, q)
    /\ q.complete => p.complete \/ HasCancel(q)
    /\ q.open \/ q.complete \/ ~(p.open \/ p.complete)
    /\ q.open /\ ~q.complete => Following(q) = Following(p)
    /\ q.got = p.got \/ (p.reader = "holding" /\ q.got = p.got + 1)
    /\ q.reader = "holding" => p.reader = "holding"
    /\ q.open /\ p.reader = "waiting" =>
          q.reader = "waiting" /\ q.queue = p.queue /\ q.complete = p.complete
    /\ \A m \in Nat : DonesOK(p, m) => DonesOK(q, m)
    /\ HasDone(q) => HasDone(p)

\* The reader leaves its loop.
LEMMA FinishMoves ==
    ASSUME NEW p \in Pages, PageOK(p), p.reader = "holding", NEW o \in {"cancelled", "left"},
           NEW q, q = Finish(p, o)
    PROVE  LocalMove(p, q)
<1> DEFINE f == Finish(p, o)
<1>1. o \in Outcomes /\ o # "done" /\ o # "none"
  BY DEF Outcomes, Failures
<1>2. /\ f \in Pages /\ f.open = FALSE /\ f.complete = (p.complete \/ p.open)
      /\ f.queue = p.queue /\ f.reader = "ended" /\ f.got = p.got /\ f.outcome = o
      /\ f.out = IF p.open /\ ~p.complete THEN Append(p.out, "cancel") ELSE p.out
  BY <1>1, FinishIs
<1> HIDE DEF f
<1>3. q = f
  BY DEF f
<1>4. /\ StartFirst(f) /\ (AwaitsStart(f) <=> AwaitsStart(p)) /\ (HasCancel(p) => HasCancel(f))
      /\ f.complete => p.complete \/ HasCancel(f)
  BY <1>2, CancelOut DEF PageOK
<1>5. PageOK(f)
  BY <1>2, <1>4 DEF PageOK
<1>6. Moves(p, f)
  BY <1>2, <1>4, <1>5 DEF Moves
<1>7. /\ HasDone(f) => HasDone(p)
      /\ \A m \in Nat : DonesOK(p, m) => DonesOK(f, m)
  BY <1>1, <1>2 DEF DonesOK, HasDone
<1> QED  BY <1>2, <1>3, <1>4, <1>6, <1>7 DEF LocalMove

\* The queue s is the entry e and then the queue w.
Shorter(s, e, w) ==
    /\ w \in Seq(Entries) /\ Len(s) \in Nat /\ Len(w) \in Nat /\ Len(s) = Len(w) + 1
    /\ e = s[1] /\ e \in Entries /\ 1 \in 1..Len(s)
    /\ \A i \in 1..Len(w) : w[i] = s[i + 1] /\ i + 1 \in 1..Len(s)
    /\ \A i \in 0..Len(w) : ValuesUpTo(s, i + 1) => ValuesUpTo(w, i)
    /\ \A i \in 0..Len(w) : e.kind = "value" /\ ValuesUpTo(w, i) => ValuesUpTo(s, i + 1)

LEMMA ShorterIs ==
    ASSUME NEW s \in Seq(Entries), s # <<>>
    PROVE  Shorter(s, Head(s), Tail(s)) /\ Tail(s) \in Seq(Entries)
<1> DEFINE w == Tail(s)
<1>1. /\ w \in Seq(Entries) /\ Len(w) = Len(s) - 1 /\ Len(s) \in Nat \ {0}
      /\ \A i \in 1..(Len(s) - 1) : w[i] = s[i + 1]
      /\ Head(s) = s[1] /\ Head(s) \in Entries
  BY Rest
<1> HIDE DEF w
<1>2. /\ Len(w) \in Nat /\ Len(s) = Len(w) + 1 /\ 1 \in 1..Len(s)
      /\ \A i \in 1..Len(w) : w[i] = s[i + 1] /\ i + 1 \in 1..Len(s)
  BY <1>1
<1>3. ASSUME NEW i \in 0..Len(w), ValuesUpTo(s, i + 1)
      PROVE  ValuesUpTo(w, i)
  BY <1>2, <1>3 DEF ValuesUpTo
<1>4. ASSUME NEW i \in 0..Len(w), s[1].kind = "value", ValuesUpTo(w, i)
      PROVE  ValuesUpTo(s, i + 1)
  <2> SUFFICES ASSUME NEW j \in 1..(i + 1)
               PROVE  s[j].kind = "value"
    BY DEF ValuesUpTo
  <2>1. CASE j = 1
    BY <1>4, <2>1
  <2>2. CASE j # 1
    <3>1. j - 1 \in 1..i /\ j - 1 \in 1..Len(w) /\ (j - 1) + 1 = j
      BY <1>2, <2>2
    <3> QED  BY <1>2, <1>4, <3>1 DEF ValuesUpTo
  <2> QED  BY <2>1, <2>2
<1>5. Shorter(s, Head(s), w)
  BY <1>1, <1>2, <1>3, <1>4 DEF Shorter
<1> QED  BY <1>1, <1>5 DEF w

LEMMA OneOn == \A a, i \in Nat : a + (i + 1) = (a + 1) + i
OBVIOUS

\* t is the page p with the queue w.
Queued(p, t, w) ==
    /\ t \in Pages /\ t.queue = w /\ t.reader = p.reader /\ t.got = p.got
    /\ t.open = p.open /\ t.complete = p.complete /\ t.outcome = p.outcome /\ t.out = p.out
    /\ t.aborted = p.aborted /\ t.returning = p.returning

LEMMA QueuedIs ==
    ASSUME NEW p \in Pages, NEW w \in Seq(Entries)
    PROVE  Queued(p, [p EXCEPT !.queue = w], w)
BY DEF Queued, Pages

\* The reader takes the next entry from the queue.
LEMMA TakeMoves ==
    ASSUME NEW p \in Pages, PageOK(p), p.reader = "holding", ~p.aborted, p.queue # <<>>,
           NEW e, NEW w, Shorter(p.queue, e, w), NEW t, Queued(p, t, w), NEW q, q = Hand(t, e)
    PROVE  LocalMove(p, q)
<1>1. /\ p.queue \in Seq(Entries) /\ p.reader \in Readers /\ p.got \in Nat
  BY PageIs
<1>2. /\ w \in Seq(Entries) /\ Len(p.queue) \in Nat /\ Len(w) \in Nat
      /\ Len(p.queue) = Len(w) + 1
      /\ e = p.queue[1] /\ e \in Entries /\ 1 \in 1..Len(p.queue)
      /\ \A i \in 1..Len(w) : w[i] = p.queue[i + 1] /\ i + 1 \in 1..Len(p.queue)
      /\ \A i \in 0..Len(w) : ValuesUpTo(p.queue, i + 1) => ValuesUpTo(w, i)
      /\ \A i \in 0..Len(w) : e.kind = "value" /\ ValuesUpTo(w, i) => ValuesUpTo(p.queue, i + 1)
  BY DEF Shorter
<1>3. /\ t \in Pages /\ t.queue = w /\ t.reader = p.reader /\ t.got = p.got
      /\ t.open = p.open /\ t.complete = p.complete /\ t.outcome = p.outcome /\ t.out = p.out
      /\ t.aborted = p.aborted /\ t.returning = p.returning
  BY DEF Queued
<1>4. p.outcome = "none"
  BY DEF PageOK
<1>5. /\ Len(w) \in 0..Len(w)
      /\ \A i \in 1..Len(w) : i - 1 \in 0..Len(w) /\ (i - 1) + 1 = i /\ (i + 1) - 1 = i
  BY <1>2
<1>6. CASE e.kind = "value" /\ ~Leaving(t)
  <2>1. /\ q \in Pages /\ q.queue = t.queue /\ q.reader = "holding" /\ q.got = e.n
        /\ q.open = t.open /\ q.complete = t.complete
        /\ q.outcome = t.outcome /\ q.out = t.out
    BY <1>2, <1>3, <1>6, HandValue
  <2>2. e.n = p.got + 1
    BY <1>2, <1>6 DEF PageOK
  <2>3. /\ q.queue = w /\ q.open = p.open /\ q.complete = p.complete
        /\ q.outcome = p.outcome /\ q.out = p.out /\ q.got = p.got + 1
    BY <1>3, <2>1, <2>2
  <2>4. ASSUME NEW i \in 1..Len(w), w[i].kind = "value"
        PROVE  w[i].n = q.got + i /\ ValuesUpTo(w, i - 1)
    <3>1. p.queue[i + 1].n = p.got + (i + 1) /\ ValuesUpTo(p.queue, (i + 1) - 1)
      BY <1>2, <2>4 DEF PageOK
    <3>2. ValuesUpTo(w, i - 1)
      BY <1>2, <1>5, <3>1
    <3>3. i \in Nat /\ q.got = p.got + 1 /\ w[i] = p.queue[i + 1]
      BY <1>2, <2>3
    <3>4. w[i].n = q.got + i
      <4>1. p.got + (i + 1) = (p.got + 1) + i
        BY <1>1, <3>3, OneOn
      <4> QED  BY <3>1, <3>3, <4>1
    <3> QED  BY <3>2, <3>4
  <2>5. ValuesUpTo(w, Len(w)) <=> ValuesUpTo(p.queue, Len(p.queue))
    BY <1>2, <1>5, <1>6
  <2>6. StartFirst(q) /\ (AwaitsStart(q) <=> AwaitsStart(p)) /\ (HasCancel(p) => HasCancel(q))
    BY <2>1, <2>3, CancelOut DEF PageOK
  <2>7. PageOK(q)
    <3>1. /\ ~q.complete => Len(q.queue) <= MaxBuffered /\ ValuesUpTo(q.queue, Len(q.queue))
          /\ q.complete => ~ValuesUpTo(q.queue, Len(q.queue))
          /\ Len(q.queue) <= MaxBuffered + 2
          /\ q.open => Len(q.queue) <= MaxBuffered + 1
      BY <1>2, <2>3, <2>5, StreamRelayAssumption DEF PageOK
    <3> QED  BY <1>4, <2>1, <2>3, <2>4, <2>6, <3>1 DEF PageOK
  <2>8. Moves(p, q)
    BY <2>1, <2>3, <2>6, <2>7 DEF Moves
  <2>9. ASSUME NEW m \in Nat, DonesOK(p, m)
        PROVE  DonesOK(q, m)
    <3>1. ASSUME NEW i \in 1..Len(w), w[i].kind = "done", ValuesUpTo(w, i - 1)
          PROVE  q.got + i = m + 1
      <4>1. p.queue[i + 1].kind = "done" /\ ValuesUpTo(p.queue, (i + 1) - 1)
        BY <1>2, <1>5, <1>6, <3>1
      <4>2. p.got + (i + 1) = m + 1
        BY <1>2, <2>9, <4>1 DEF DonesOK
      <4>3. i \in Nat /\ q.got = p.got + 1
        BY <1>2, <2>3
      <4> QED  BY <1>1, <4>2, <4>3
    <3> QED  BY <1>4, <2>3, <3>1 DEF DonesOK
  <2>10. HasDone(q) => HasDone(p)
    <3>1. ASSUME NEW i \in 1..Len(w), w[i].kind = "done"
          PROVE  HasDone(p)
      BY <1>2, <3>1 DEF HasDone
    <3> QED  BY <2>3, <3>1 DEF HasDone
  <2>11. Following(q) = Following(p)
    <3>1. Len(q.queue) = Len(w) /\ q.got = p.got + 1
      BY <2>3
    <3>2. p.got + (Len(w) + 1) = (p.got + 1) + Len(w)
      BY <1>1, <1>2, OneOn
    <3> QED  BY <1>2, <3>1, <3>2 DEF Following
  <2> QED  BY <2>1, <2>3, <2>8, <2>9, <2>10, <2>11 DEF LocalMove
<1>7. CASE Leaving(t) \/ e.kind # "value"
  <2>1. /\ q \in Pages /\ q.queue = t.queue /\ q.reader = "ended" /\ q.got = t.got
        /\ q.open = FALSE /\ q.complete = (t.complete \/ t.open)
        /\ q.outcome # "none"
        /\ q.outcome = "done" => e.kind = "done" /\ ~Leaving(t)
        /\ q.out = IF t.open /\ ~t.complete THEN Append(t.out, "cancel") ELSE t.out
    <3>1. t \in Pages /\ e \in Entries /\ (Leaving(t) \/ e.kind # "value") /\ q = Hand(t, e)
      BY <1>2, <1>3, <1>7
    <3>2. Ended(t, e, q)
      BY <3>1, HandEnd
    <3> QED  BY <3>2 DEF Ended
  <2>2. /\ q.queue = w /\ q.got = p.got /\ q.complete = (p.complete \/ p.open)
        /\ q.out = IF p.open /\ ~p.complete THEN Append(p.out, "cancel") ELSE p.out
    BY <1>3, <2>1
  <2>3. /\ StartFirst(q) /\ (AwaitsStart(q) <=> AwaitsStart(p)) /\ (HasCancel(p) => HasCancel(q))
        /\ q.complete => p.complete \/ HasCancel(q)
    BY <2>1, <2>2, CancelOut DEF PageOK
  <2>4. ~q.complete => ValuesUpTo(q.queue, Len(q.queue)) /\ Len(q.queue) <= MaxBuffered
    <3> SUFFICES ASSUME ~q.complete
                 PROVE  ValuesUpTo(w, Len(w)) /\ Len(w) <= MaxBuffered
      BY <2>2
    <3>1. ValuesUpTo(p.queue, Len(p.queue)) /\ Len(p.queue) <= MaxBuffered
      BY <2>2 DEF PageOK
    <3> QED  BY <1>2, <1>5, <3>1, StreamRelayAssumption
  <2>5. Len(q.queue) <= MaxBuffered + 2
    BY <1>2, <2>2, StreamRelayAssumption DEF PageOK
  <2>6. PageOK(q)
    BY <2>1, <2>3, <2>4, <2>5 DEF PageOK
  <2>7. Moves(p, q)
    BY <2>1, <2>2, <2>3, <2>6 DEF Moves
  <2>8. ASSUME NEW m \in Nat, DonesOK(p, m)
        PROVE  DonesOK(q, m)
    <3>1. ASSUME e.kind = "done"
          PROVE  p.got = m
      <4>1. ValuesUpTo(p.queue, 1 - 1)
        BY DEF ValuesUpTo
      <4>2. p.got + 1 = m + 1
        BY <1>2, <2>8, <3>1, <4>1 DEF DonesOK
      <4> QED  BY <1>1, <4>2
    <3> QED  BY <2>1, <2>2, <3>1 DEF DonesOK
  <2>9. HasDone(q) => HasDone(p)
    <3>1. q.outcome = "done" => p.queue[1].kind = "done"
      BY <1>2, <2>1
    <3>2. ASSUME NEW i \in 1..Len(w), w[i].kind = "done"
          PROVE  HasDone(p)
      BY <1>2, <3>2 DEF HasDone
    <3> QED  BY <1>2, <2>2, <3>1, <3>2 DEF HasDone
  <2> QED  BY <2>1, <2>2, <2>3, <2>7, <2>8, <2>9 DEF LocalMove
<1> QED  BY <1>6, <1>7

\* The reader asks for the next entry, and one is queued.
LEMMA AskMoves ==
    ASSUME NEW p \in Pages, PageOK(p), p.reader = "holding", ~p.aborted, p.queue # <<>>,
           NEW q, q = Hand([p EXCEPT !.queue = Tail(@)], Head(p.queue))
    PROVE  LocalMove(p, q)
<1>1. Tail(p.queue) \in Seq(Entries) /\ Shorter(p.queue, Head(p.queue), Tail(p.queue))
  BY PageIs, ShorterIs
<1>2. Queued(p, [p EXCEPT !.queue = Tail(@)], Tail(p.queue))
  BY <1>1, QueuedIs
<1> QED  BY <1>1, <1>2, TakeMoves

\* No entry is queued: the reader waits.
LEMMA WaitMoves ==
    ASSUME NEW p \in Pages, PageOK(p), p.reader = "holding", p.queue = <<>>,
           NEW q, q = [p EXCEPT !.reader = "waiting"]
    PROVE  LocalMove(p, q)
<1>1. /\ q \in Pages /\ q.open = p.open /\ q.complete = p.complete /\ q.queue = p.queue
      /\ q.reader = "waiting" /\ q.got = p.got /\ q.outcome = p.outcome /\ q.out = p.out
  BY DEF Pages, Readers
<1>2. Len(p.queue) = 0 /\ ~p.complete
  BY EmptyIs DEF PageOK, ValuesUpTo
<1>3. StartFirst(q) /\ (AwaitsStart(q) <=> AwaitsStart(p)) /\ (HasCancel(p) => HasCancel(q))
  BY <1>1, CancelOut DEF PageOK
<1>4. PageOK(q)
  BY <1>1, <1>2, <1>3 DEF PageOK
<1>5. Moves(p, q)
  BY <1>1, <1>3, <1>4 DEF Moves
<1>6. Following(q) = Following(p)
  BY <1>1 DEF Following
<1>7. /\ HasDone(q) => HasDone(p)
      /\ \A m \in Nat : DonesOK(p, m) => DonesOK(q, m)
  BY <1>1 DEF DonesOK, HasDone
<1> QED  BY <1>1, <1>5, <1>6, <1>7 DEF LocalMove

\* p and r are one page but for what the reader intends to do.
Alike(p, r) ==
    /\ r \in Pages /\ r.open = p.open /\ r.complete = p.complete /\ r.queue = p.queue
    /\ r.reader = p.reader /\ r.got = p.got /\ r.outcome = p.outcome /\ r.out = p.out

LEMMA AlikeIs ==
    ASSUME NEW p \in Pages, PageOK(p), p.reader # "idle", NEW r, Alike(p, r)
    PROVE  /\ PageOK(r) /\ LocalMove(p, r)
           /\ \A q : LocalMove(r, q) => LocalMove(p, q)
<1>1. PageOK(r)
  BY DEF PageOK, Alike, StartFirst
<1>2. /\ AwaitsStart(r) <=> AwaitsStart(p)
      /\ HasCancel(r) <=> HasCancel(p)
      /\ HasDone(r) <=> HasDone(p)
      /\ Following(r) = Following(p)
      /\ \A m : DonesOK(r, m) <=> DonesOK(p, m)
  BY DEF Alike, AwaitsStart, HasCancel, HasDone, Following, DonesOK
<1>3. LocalMove(p, r)
  BY <1>1, <1>2 DEF Alike, LocalMove, Moves
<1>4. ASSUME NEW q, LocalMove(r, q)
      PROVE  LocalMove(p, q)
  <2>1. Moves(p, q)
    BY <1>2, <1>4 DEF LocalMove, Moves, Alike
  <2> QED  BY <1>2, <1>4, <2>1 DEF LocalMove, Alike
<1> QED  BY <1>1, <1>3, <1>4

LEMMA IntendIs ==
    ASSUME NEW p \in Pages
    PROVE  Alike(p, [p EXCEPT !.aborted = TRUE]) /\ Alike(p, [p EXCEPT !.returning = TRUE])
BY DEF Alike, Pages

LEMMA OverIs ==
    ASSUME NEW p \in Pages
    PROVE  Over(p, [Detach(p) EXCEPT !.complete = TRUE])
BY DEF Over, Detach, Pages

LEMMA OverAgain ==
    ASSUME NEW p \in Pages, NEW s, Over(p, s)
    PROVE  Over(p, [s EXCEPT !.complete = TRUE])
BY DEF Over, Pages

\* The timer or the abort ends the stream.
LEMMA TerminateMoves ==
    ASSUME NEW p \in Pages, PageOK(p), p.open, NEW why \in Failures, NEW q, q = Terminate(p, why)
    PROVE  LocalMove(p, q)
<1> DEFINE s == [Detach(p) EXCEPT !.complete = TRUE]
           u == [s EXCEPT !.complete = TRUE]
           e == Failure(why)
           v == Deliver(u, e)
<1>1. /\ e \in Entries /\ e.kind # "value" /\ e.kind # "done"
  BY EntryIs
<1>2. Over(p, s)
  BY OverIs
<1> HIDE DEF s
<1>3. Over(p, u)
  BY <1>2, OverAgain
<1>4. q = Cancel(v)
  BY <1>1 DEF Terminate, Enqueue, s
<1> HIDE DEF u, e
<1>5. p.reader # "idle" /\ p.reader # "ended" /\ Len(p.queue) <= MaxBuffered + 1
  BY DEF PageOK
<1>6. /\ TakesEnd(p, v)
      /\ \A m \in Nat : DonesOK(p, m) => DonesOK(v, m)
      /\ HasDone(v) => HasDone(p)
  BY <1>1, <1>3, <1>5, EndArrives DEF EndsAt
<1> HIDE DEF v
<1>7. /\ v \in Pages /\ PageOK(v) /\ v.complete = TRUE /\ v.open = FALSE /\ v.got = p.got
      /\ v.reader \in {p.reader, "ended"} /\ v.reader # "waiting" /\ v.reader # "idle"
      /\ (AwaitsStart(v) <=> AwaitsStart(p)) /\ (HasCancel(p) => HasCancel(v))
  BY <1>6 DEF TakesEnd, Moves
<1>8. /\ q \in Pages
      /\ q.out = Append(v.out, "cancel")
      /\ q.open = v.open
      /\ q.complete = v.complete
      /\ q.queue = v.queue /\ q.reader = v.reader /\ q.got = v.got /\ q.outcome = v.outcome
  BY <1>4, <1>7, CancelIs
<1>9. StartFirst(q) /\ (AwaitsStart(q) <=> AwaitsStart(v)) /\ HasCancel(q)
  BY <1>7, <1>8, CancelOut DEF PageOK
<1>10. PageOK(q)
  BY <1>7, <1>8, <1>9 DEF PageOK
<1>11. Moves(p, q)
  BY <1>7, <1>8, <1>9, <1>10 DEF Moves
<1>12. /\ HasDone(q) => HasDone(p)
       /\ \A m \in Nat : DonesOK(p, m) => DonesOK(q, m)
  <2>1. (HasDone(q) <=> HasDone(v)) /\ \A m \in Nat : DonesOK(v, m) <=> DonesOK(q, m)
    BY <1>8 DEF DonesOK, HasDone
  <2> QED  BY <1>6, <2>1
<1> QED  BY <1>7, <1>8, <1>9, <1>11, <1>12 DEF LocalMove

---------------------------------------------------------------------------
(* Induction over the natural numbers: a set of them has a least element. *)

LEMMA LessRel == \A x, y \in Nat : x < y => <<x, y>> \in OpToRel(<, Nat)
BY DEF OpToRel

LEMMA NatLeast ==
    ASSUME NEW T \in SUBSET Nat, T # {}
    PROVE  \E x \in T : \A y \in T : x <= y
<1>1. PICK x \in T : \A y \in T : ~(<<y, x>> \in OpToRel(<, Nat))
  BY NatLessThanWellFounded, WFMin
<1>2. \A y \in T : ~(y < x)
  BY <1>1, LessRel
<1> QED  BY <1>2

\* A set with 0, and with i + 1 when it has i < n, has all of 0..n.
LEMMA UpTo ==
    ASSUME NEW n \in Nat, NEW G, 0 \in G, \A i \in 0..n : i \in G /\ i # n => i + 1 \in G
    PROVE  \A i \in 0..n : i \in G
<1> DEFINE T == {i \in 0..n : i \notin G}
<1>1. CASE T # {}
  <2>1. T \in SUBSET Nat
    OBVIOUS
  <2>2. PICK x \in T : \A y \in T : x <= y
    BY <1>1, <2>1, NatLeast
  <2>3. x \in 0..n /\ x \notin G /\ x # 0
    BY <2>2
  <2>4. x - 1 \in 0..n /\ x - 1 # n /\ (x - 1) + 1 = x
    BY <2>3
  <2>5. x - 1 \in G
    BY <2>2, <2>4
  <2> QED  BY <2>3, <2>4, <2>5
<1>2. CASE T = {}
  BY <1>2
<1> QED  BY <1>1, <1>2

---------------------------------------------------------------------------
(* The loop over the entries of an event *)

\* f[i] is what the loop has made of p after i entries.
Fills(f, p, entries, n) ==
    f = [i \in 0..n |-> IF i = 0 THEN p ELSE Enqueue(f[i - 1], entries[i])]

LEMMA FillsExist ==
    ASSUME NEW p, NEW entries, NEW n \in Nat
    PROVE  \E f : Fills(f, p, entries, n)
<1> DEFINE G == {m \in Nat : \E f : Fills(f, p, entries, m)}
<1>1. 0 \in G
  <2>1. Fills([i \in 0..0 |-> p], p, entries, 0)
    BY DEF Fills
  <2> QED  BY <2>1
<1>2. ASSUME NEW m \in 0..n, m \in G
      PROVE  m + 1 \in G
  <2>1. PICK f : Fills(f, p, entries, m)
    BY <1>2
  <2> DEFINE g == [i \in 0..(m + 1) |-> IF i = m + 1 THEN Enqueue(f[m], entries[m + 1]) ELSE f[i]]
  <2>2. \A i \in 0..m : f[i] = IF i = 0 THEN p ELSE Enqueue(f[i - 1], entries[i])
    BY <2>1 DEF Fills
  <2>3. \A i \in 0..(m + 1) : g[i] = IF i = 0 THEN p ELSE Enqueue(g[i - 1], entries[i])
    BY <2>2
  <2>4. Fills(g, p, entries, m + 1)
    BY <2>3 DEF Fills
  <2> QED  BY <2>4
<1> HIDE DEF G
<1>3. n \in G
  BY <1>1, <1>2, UpTo
<1> QED  BY <1>3 DEF G

\* f follows the loop over all the entries.
Loops(f, p, entries) ==
    /\ f[0] = p /\ \A i \in 1..Len(entries) : f[i] = Enqueue(f[i - 1], entries[i])
    /\ EnqueueAll(p, entries) = f[Len(entries)]

\* The loop of the source, as a function of the number of entries done.
LEMMA EnqueueAllIs ==
    ASSUME NEW p, NEW entries, Len(entries) \in Nat
    PROVE  \E f : Loops(f, p, entries)
<1> DEFINE after[i \in 0..Len(entries)] == IF i = 0 THEN p ELSE Enqueue(after[i - 1], entries[i])
<1>1. PICK f : Fills(f, p, entries, Len(entries))
  BY FillsExist
<1>2. after = [i \in 0..Len(entries) |-> IF i = 0 THEN p ELSE Enqueue(after[i - 1], entries[i])]
  BY <1>1 DEF Fills
<1>3. EnqueueAll(p, entries) = after[Len(entries)]
  BY DEF EnqueueAll
<1> HIDE DEF after
<1>4. Loops(after, p, entries)
  BY <1>2, <1>3 DEF Loops
<1> QED  BY <1>4

LEMMA EnqueueOne ==
    ASSUME NEW p, NEW a
    PROVE  EnqueueAll(p, <<a>>) = Enqueue(p, a)
<1> DEFINE s == <<a>>
<1>1. Len(s) = 1 /\ s[1] = a /\ Len(s) \in Nat
  OBVIOUS
<1> HIDE DEF s
<1>2. PICK f : Loops(f, p, s)
  BY <1>1, EnqueueAllIs
<1>3. f[1] = Enqueue(f[1 - 1], s[1]) /\ 1 - 1 = 0
  BY <1>1, <1>2 DEF Loops
<1> QED  BY <1>1, <1>2, <1>3 DEF s, Loops

LEMMA EnqueueTwo ==
    ASSUME NEW p, NEW a, NEW b
    PROVE  EnqueueAll(p, <<a, b>>) = Enqueue(Enqueue(p, a), b)
<1> DEFINE s == <<a, b>>
<1>1. Len(s) = 2 /\ s[1] = a /\ s[2] = b /\ Len(s) \in Nat
  OBVIOUS
<1> HIDE DEF s
<1>2. PICK f : Loops(f, p, s)
  BY <1>1, EnqueueAllIs
<1>3. f[1] = Enqueue(f[1 - 1], s[1]) /\ 1 - 1 = 0 /\ f[2] = Enqueue(f[2 - 1], s[2]) /\ 2 - 1 = 1
  BY <1>1, <1>2 DEF Loops
<1> QED  BY <1>1, <1>2, <1>3 DEF s, Loops

---------------------------------------------------------------------------
(* The messages *)

Kinds == {"chunk", "done", "whole", "failed", "bye", "error", "cancelled"}

\* A message of the worker or the content script: "chunk", "done" and "whole"
\* carry the number of an envelope, the last one for "done" and "whole".
Messages == {e \in [kind : Kinds, n : 0..(MaxChunks + 1)] :
                e.kind \in {"chunk", "done", "whole"} => e.n # 0}

\* What the arrival of a message does to a page that waits for it.
TakesMessage(p, q, e) ==
    /\ Moves(p, q)
    /\ q.got = p.got \/ q.got = p.got + 1
    /\ q.open \/ q.complete
    /\ q.open => e.kind = "chunk"
    /\ q.open /\ ~q.complete => Following(q) = Following(p) + 1
    /\ q.complete => HasCancel(q) \/ e.kind # "chunk"
    /\ \A m \in Nat : DonesOK(p, m) /\ (e.kind \in {"done", "whole"} => e.n = m) => DonesOK(q, m)
    /\ HasDone(q) => HasDone(p) \/ e.kind \in {"done", "whole"}

LEMMA DetachIs ==
    ASSUME NEW p \in Pages, PageOK(p)
    PROVE  /\ Detach(p) \in Pages /\ PageOK(Detach(p)) /\ Detach(p).open = FALSE
           /\ Detach(p).complete = p.complete /\ Detach(p).queue = p.queue
           /\ Detach(p).reader = p.reader /\ Detach(p).got = p.got
           /\ Detach(p).outcome = p.outcome /\ Detach(p).out = p.out
<1> DEFINE r == Detach(p)
<1>1. /\ r \in Pages /\ r.open = FALSE /\ r.complete = p.complete /\ r.queue = p.queue
      /\ r.reader = p.reader /\ r.got = p.got /\ r.outcome = p.outcome /\ r.out = p.out
  BY DEF Pages, Detach
<1> HIDE DEF r
<1>2. StartFirst(r)
  BY <1>1 DEF PageOK, StartFirst
<1>3. PageOK(r)
  BY <1>1, <1>2 DEF PageOK
<1> QED  BY <1>1, <1>3 DEF r

\* An event with a chunk.
LEMMA LiveChunk ==
    ASSUME NEW p \in Pages, PageOK(p), p.open, ~p.complete, NEW e \in Messages,
           e.kind = "chunk", e.n = Following(p), NEW q, q = Live(p, e)
    PROVE  TakesMessage(p, q, e)
<1>1. e.n \in 1..(MaxChunks + 1)
  BY StreamRelayAssumption DEF Messages
<1>2. LiveEntries(e) = <<Value(e.n)>>
  BY DEF LiveEntries
<1>3. q = Enqueue(p, Value(e.n))
  BY <1>2, EnqueueOne DEF Live
<1>4. p.reader # "idle" /\ p.reader # "ended"
  BY DEF PageOK
<1>5. TakesValue(p, q, e.n)
  BY <1>1, <1>3, <1>4, ValueTaken
<1>6. Moves(p, q) /\ q.reader \in Readers /\ p.got \in Nat /\ Len(p.queue) \in Nat
  BY <1>5, PageIs DEF TakesValue, Moves
<1>7. q.open => q.reader # "ended"
  BY <1>6 DEF Moves, PageOK
<1> QED  BY <1>5, <1>6, <1>7 DEF TakesValue, TakesMessage

\* The entry of an error, or the last one of a stream.
LEMMA EndTaken ==
    ASSUME NEW p \in Pages, PageOK(p), p.reader # "idle", ~p.open, Len(p.queue) <= MaxBuffered + 1,
           NEW e \in Entries, e.kind # "value", NEW q, q = Enqueue(p, e)
    PROVE  /\ TakesEnd(p, q)
           /\ \A m \in Nat : DonesOK(p, m) /\ EndsAt(p, e, m) => DonesOK(q, m)
           /\ HasDone(q) => HasDone(p) \/ e.kind = "done"
<1> DEFINE s == [p EXCEPT !.complete = TRUE]
<1>1. Over(p, s)
  BY DEF Over, Pages
<1>2. q = Deliver(s, e)
  BY DEF Enqueue
<1> HIDE DEF s
<1> QED  BY <1>1, <1>2, EndArrives

\* An event, or a response, that is an error.
LEMMA LiveFailure ==
    ASSUME NEW p \in Pages, PageOK(p), p.open, ~p.complete, NEW e \in Messages,
           NEW why \in Failures, e.kind \notin {"chunk", "done", "whole"},
           NEW q, q = EnqueueAll(Detach(p), <<Failure(why)>>)
    PROVE  TakesMessage(p, q, e)
<1> DEFINE r == Detach(p)
           f == Failure(why)
<1>1. f \in Entries /\ f.kind # "value" /\ f.kind # "done"
  BY EntryIs
<1>2. /\ r \in Pages /\ PageOK(r) /\ r.open = FALSE /\ r.complete = p.complete
      /\ r.queue = p.queue /\ r.reader = p.reader /\ r.got = p.got
      /\ r.outcome = p.outcome /\ r.out = p.out
  BY DetachIs
<1>3. q = Enqueue(r, f)
  BY EnqueueOne
<1> HIDE DEF r, f
<1>4. p.reader # "idle" /\ Len(p.queue) <= MaxBuffered + 1
  BY DEF PageOK
<1>5. /\ TakesEnd(r, q)
      /\ \A m \in Nat : DonesOK(r, m) => DonesOK(q, m)
      /\ HasDone(q) => HasDone(r)
  BY <1>1, <1>2, <1>3, <1>4, EndTaken DEF EndsAt
<1>6. /\ AwaitsStart(r) <=> AwaitsStart(p)
      /\ HasCancel(r) <=> HasCancel(p)
      /\ HasDone(r) <=> HasDone(p)
      /\ \A m : DonesOK(r, m) <=> DonesOK(p, m)
  BY <1>2 DEF AwaitsStart, HasCancel, HasDone, DonesOK
<1>7. Moves(p, q)
  BY <1>2, <1>5, <1>6 DEF TakesEnd, Moves
<1> QED  BY <1>2, <1>5, <1>6, <1>7 DEF TakesEnd, TakesMessage

\* The "done" event: its envelope and the end.
LEMMA LiveDone ==
    ASSUME NEW p \in Pages, PageOK(p), p.open, ~p.complete, NEW e \in Messages,
           e.kind = "done", e.n = Following(p), NEW q, q = Live(p, e)
    PROVE  TakesMessage(p, q, e)
<1> DEFINE r == Detach(p)
           u == Enqueue(r, Value(e.n))
<1>1. e.n \in 1..(MaxChunks + 1)
  BY StreamRelayAssumption DEF Messages
<1>2. LiveEntries(e) = <<Value(e.n), Done>>
  BY DEF LiveEntries
<1>3. q = Enqueue(u, Done)
  BY <1>2, EnqueueTwo DEF Live
<1>4. /\ r \in Pages /\ PageOK(r) /\ r.open = FALSE /\ r.complete = p.complete
      /\ r.queue = p.queue /\ r.reader = p.reader /\ r.got = p.got
      /\ r.outcome = p.outcome /\ r.out = p.out
  BY DetachIs
<1> HIDE DEF r
<1>5. /\ p.reader # "idle" /\ p.reader # "ended" /\ Len(p.queue) <= MaxBuffered + 1
      /\ p.got \in Nat /\ Len(p.queue) \in Nat
  BY PageIs DEF PageOK
<1>6. /\ AwaitsStart(r) <=> AwaitsStart(p)
      /\ HasCancel(r) <=> HasCancel(p)
      /\ HasDone(r) <=> HasDone(p)
      /\ Following(r) = Following(p)
      /\ \A m : DonesOK(r, m) <=> DonesOK(p, m)
  BY <1>4 DEF AwaitsStart, HasCancel, HasDone, DonesOK, Following
<1>7. TakesValue(r, u, e.n)
  BY <1>1, <1>4, <1>5, <1>6, ValueTaken
<1> HIDE DEF u
<1>8. /\ u \in Pages
      /\ PageOK(u)
      /\ u.reader # "idle"
      /\ ~u.open
      /\ Len(u.queue) <= MaxBuffered + 1
  BY <1>4, <1>5, <1>7 DEF TakesValue, Moves
<1>9. Done \in Entries /\ Done.kind = "done"
  BY EntryIs
<1>10. /\ TakesEnd(u, q)
       /\ \A m \in Nat : DonesOK(u, m) /\ (Following(u) = m + 1 \/ u.complete \/ u.reader = "ended")
                   => DonesOK(q, m)
  BY <1>3, <1>8, <1>9, EndTaken DEF EndsAt
<1>11. Moves(p, q)
  BY <1>4, <1>6, <1>7, <1>10 DEF TakesValue, TakesEnd, Moves
<1>12. ASSUME NEW m \in Nat, DonesOK(p, m), e.n = m
       PROVE  DonesOK(q, m)
  <2>1. DonesOK(u, m)
    BY <1>6, <1>7, <1>12 DEF TakesValue
  <2>2. Following(u) = m + 1 \/ u.complete \/ u.reader = "ended"
    BY <1>7, <1>12 DEF TakesValue
  <2> QED  BY <1>10, <2>1, <2>2
<1>13. q.got = p.got \/ q.got = p.got + 1
  BY <1>4, <1>7, <1>10 DEF TakesValue, TakesEnd
<1> QED  BY <1>10, <1>11, <1>12, <1>13 DEF TakesEnd, TakesMessage

---------------------------------------------------------------------------
(* A buffered response *)

\* What the first i values of a buffered response make of a waiting page p.
FilledBy(p, q, i) ==
    /\ Moves(p, q) /\ q.open = FALSE
    /\ q.got \in {0, 1} /\ (q.reader = "waiting" => q.got = 0)
    /\ ~q.complete /\ q.reader # "ended" => Following(q) = i + 1
    /\ q.complete => HasCancel(q)
    /\ Len(q.queue) <= MaxBuffered + 1
    /\ \A m : DonesOK(q, m)
    /\ ~HasDone(q)

LEMMA BufferedFails ==
    ASSUME NEW p \in Pages, PageOK(p), p.open, ~p.complete, NEW e \in Messages,
           e.kind = "failed", NEW q, q = Buffered(p, e)
    PROVE  TakesMessage(p, q, e)
<1>1. q = EnqueueAll(Detach(p), <<Failure("error")>>)
  BY DEF Buffered
<1> QED  BY <1>1, LiveFailure DEF Failures

\* Before the first of them.
LEMMA FilledFirst ==
    ASSUME NEW p \in Pages, PageOK(p), p.open, ~p.complete, p.reader = "waiting", p.got = 0
    PROVE  FilledBy(p, Detach(p), 0)
<1> DEFINE r == Detach(p)
<1>1. /\ r \in Pages /\ PageOK(r) /\ r.open = FALSE /\ r.complete = p.complete
      /\ r.queue = p.queue /\ r.reader = p.reader /\ r.got = p.got
      /\ r.outcome = p.outcome /\ r.out = p.out
  BY DetachIs
<1> HIDE DEF r
<1>2. r.queue = <<>> /\ Len(r.queue) = 0 /\ r.outcome = "none"
  BY <1>1, EmptyIs DEF PageOK
<1>3. (AwaitsStart(r) <=> AwaitsStart(p)) /\ (HasCancel(r) <=> HasCancel(p))
  BY <1>1 DEF AwaitsStart, HasCancel
<1>4. Moves(p, r)
  BY <1>1, <1>3 DEF Moves
<1>5. ~HasDone(r) /\ Following(r) = 0 + 1 /\ \A m : DonesOK(r, m)
  BY <1>1, <1>2 DEF HasDone, Following, DonesOK
<1>6. FilledBy(p, r, 0)
  BY <1>1, <1>2, <1>4, <1>5, StreamRelayAssumption DEF FilledBy
<1> QED  BY <1>6 DEF r

\* After one more.
LEMMA FilledNext ==
    ASSUME NEW p \in Pages, NEW i \in Nat, i + 1 \in 1..(MaxChunks + 1), NEW r, FilledBy(p, r, i),
           NEW q, q = Enqueue(r, Value(i + 1))
    PROVE  FilledBy(p, q, i + 1)
<1>1. r \in Pages /\ PageOK(r) /\ r.reader # "idle"
  BY DEF FilledBy, Moves
<1>2. ~r.complete /\ r.reader # "ended" => i + 1 = Following(r)
  BY DEF FilledBy
<1>3. TakesValue(r, q, i + 1)
  BY <1>1, <1>2, ValueTaken
<1>4. Moves(p, q)
  BY <1>3 DEF FilledBy, TakesValue, Moves
<1>5. q.open = FALSE
  <2>1. q.open \in BOOLEAN /\ ~q.open
    BY <1>3, PageIs DEF FilledBy, TakesValue, Moves
  <2> QED  BY <2>1
<1>6. q.got \in {0, 1} /\ (q.reader = "waiting" => q.got = 0)
  BY <1>3 DEF FilledBy, TakesValue
<1>7. q.complete => HasCancel(q)
  BY <1>3 DEF FilledBy, TakesValue, Moves
<1> QED  BY <1>3, <1>4, <1>5, <1>6, <1>7 DEF FilledBy, TakesValue

\* A whole response: all its envelopes, then the end.
LEMMA BufferedWhole ==
    ASSUME NEW p \in Pages, PageOK(p), p.open, ~p.complete, p.reader = "waiting", p.got = 0,
           NEW e \in Messages, e.kind = "whole", NEW q, q = Buffered(p, e)
    PROVE  TakesMessage(p, q, e)
<1> DEFINE n == e.n
           s == [i \in 1..n |-> Value(i)] \o <<Done>>
           r == Detach(p)
<1>1. n \in 1..(MaxChunks + 1)
  BY StreamRelayAssumption DEF Messages
<1>2. Done \in Entries /\ \A i \in 1..n : Value(i) \in Entries
  BY <1>1, EntryIs, StreamRelayAssumption
<1> HIDE DEF n
<1>3. Len(s) = n + 1 /\ s[n + 1] = Done /\ \A i \in 1..n : s[i] = Value(i)
  <2> DEFINE v == [i \in 1..n |-> Value(i)]
             d == Done
  <2>1. v \in Seq(Entries) /\ Len(v) = n /\ \A i \in 1..n : v[i] = Value(i)
    BY <1>1, <1>2
  <2> HIDE DEF v, d
  <2>2. d \in Entries
    BY <1>2 DEF d
  <2>3. v \o <<d>> = Append(v, d)
    BY <2>1, <2>2, Appended
  <2>4. Len(Append(v, d)) = n + 1 /\ Append(v, d)[n + 1] = d /\ \A i \in 1..n : Append(v, d)[i] = v[i]
    BY <2>1, <2>2, Appended
  <2>5. s = Append(v, d)
    BY <2>3 DEF v, d
  <2> HIDE DEF s
  <2> QED  BY <2>1, <2>4, <2>5 DEF d
<1>4. q = EnqueueAll(r, s)
  BY DEF Buffered, n
<1> HIDE DEF s
<1>5. FilledBy(p, r, 0)
  BY FilledFirst
<1> HIDE DEF r
<1>6. PICK f : Loops(f, r, s)
  <2>1. Len(s) \in Nat
    BY <1>1, <1>3
  <2> QED  BY <2>1, EnqueueAllIs
<1>7. /\ f[0] = r /\ \A i \in 1..Len(s) : f[i] = Enqueue(f[i - 1], s[i])
       /\ EnqueueAll(r, s) = f[Len(s)]
  BY <1>6 DEF Loops
<1> DEFINE G == {i \in 0..n : FilledBy(p, f[i], i)}
<1>8. 0 \in G
  BY <1>1, <1>5, <1>7
<1>9. ASSUME NEW i \in 0..n, i \in G, i # n
      PROVE  i + 1 \in G
  <2>1. /\ i + 1 \in 1..n
        /\ i + 1 \in 1..Len(s)
        /\ (i + 1) - 1 = i
        /\ i \in Nat
        /\ i + 1 \in 1..(MaxChunks + 1)
        /\ i + 1 \in 0..n
    <3>1. n \in Nat /\ n <= MaxChunks + 1 /\ MaxChunks \in Nat /\ i \in Nat /\ i < n
      BY <1>1, <1>9, StreamRelayAssumption
    <3>2. i + 1 \in 1..n /\ (i + 1) - 1 = i /\ i + 1 \in 1..(MaxChunks + 1) /\ i + 1 \in 0..n
          /\ i + 1 \in 1..(n + 1)
      BY <3>1
    <3> QED  BY <1>3, <3>1, <3>2
  <2>2. f[i + 1] = Enqueue(f[i], Value(i + 1))
    BY <1>3, <1>7, <2>1
  <2>3. FilledBy(p, f[i], i)
    BY <1>9
  <2>4. FilledBy(p, f[i + 1], i + 1)
    BY <2>1, <2>2, <2>3, FilledNext
  <2> QED  BY <2>1, <2>4
<1>10. n \in Nat /\ n \in 0..n
  BY <1>1
<1> DEFINE u == f[n]
<1>11. FilledBy(p, u, n)
  <2> HIDE DEF G, u
  <2>1. n \in G
    BY <1>8, <1>9, <1>10, UpTo
  <2> QED  BY <2>1 DEF G, u
<1>12. q = Enqueue(u, Done)
  <2>1. n + 1 \in 1..Len(s) /\ (n + 1) - 1 = n
    BY <1>3, <1>10
  <2> QED  BY <1>3, <1>4, <1>7, <2>1
<1> HIDE DEF u, G
<1>13. Done \in Entries /\ Done.kind = "done"
  BY EntryIs
<1>14. /\ u \in Pages
       /\ PageOK(u)
       /\ u.reader # "idle"
       /\ ~u.open
       /\ Len(u.queue) <= MaxBuffered + 1
  BY <1>11 DEF FilledBy, Moves
<1>15. /\ TakesEnd(u, q)
       /\ \A m \in Nat : DonesOK(u, m) /\ (Following(u) = m + 1 \/ u.complete \/ u.reader = "ended")
                   => DonesOK(q, m)
  BY <1>12, <1>13, <1>14, EndTaken DEF EndsAt
<1>16. Moves(p, q)
  BY <1>11, <1>15 DEF FilledBy, TakesEnd, Moves
<1>17. DonesOK(q, n)
  BY <1>10, <1>11, <1>15 DEF FilledBy
<1>18. q.got = p.got \/ q.got = p.got + 1
  BY <1>11, <1>15 DEF FilledBy, TakesEnd
<1> QED  BY <1>15, <1>16, <1>17, <1>18 DEF TakesEnd, TakesMessage, n

---------------------------------------------------------------------------
(* The inductive invariant *)

\* The elements of the sequence w.
In(w) == {w[k] : k \in 1..Len(w)}

Workers == [at : Working \cup {"none", "gone", "dead"}, aborted : BOOLEAN, made : 0..MaxChunks]

Typed ==
    /\ page \in Pages
    /\ port \in {"none", "open", "closed"} /\ route \in {"none", "live", "buffered"}
    /\ worker \in Workers
    /\ toWorker \in Seq({"start", "cancel", "bye"})
    /\ toContent \in Seq(Messages) /\ toPage \in Seq(Messages)

\* A started page that is not pending any more takes no more values.
PagesOK == PageOK(page) /\ (page.reader = "idle" \/ page.open \/ page.complete)

DonesMade ==
    /\ DonesOK(page, worker.made + 1)
    /\ HasDone(page) => worker.at = "gone"

\* The last envelope of a message of the channel w is the worker's last.
Ends(w) ==
    \A e \in In(w) : e.kind \in {"done", "whole"} => worker.at = "gone" /\ e.n = worker.made + 1

EndsOK == Ends(toPage) /\ Ends(toContent)

AllChunks(w) == \A j \in 1..Len(w) : w[j].kind = "chunk"

\* The envelopes of w that come before any end are numbered from next on.
Numbered(w, next) ==
    \A k \in 1..Len(w) :
       (\A j \in 1..(k - 1) : w[j].kind = "chunk") /\ w[k].kind \in {"chunk", "done"}
       => w[k].n = next + (k - 1)

\* On its way from the worker to the page.
Way == toPage \o toContent

NumberedOK ==
    route = "live" /\ page.open /\ ~page.complete =>
       /\ Numbered(Way, Following(page))
       /\ AllChunks(Way) /\ port = "open" => worker.made + 1 = Following(page) + Len(Way)

KindsIn(w, kinds) == \A e \in In(w) : e.kind \in kinds

RoutesOK ==
    /\ route = "none" => /\ port = "none" /\ worker.at = "none" /\ worker.made = 0
                         /\ toWorker = <<>> /\ toContent = <<>> /\ KindsIn(toPage, {"cancelled"})
    /\ route = "buffered" => /\ port = "none" /\ In(toWorker) \subseteq {"start"}
                             /\ KindsIn(toPage, {"whole", "failed", "cancelled"})
                             /\ KindsIn(toContent, {"whole", "failed"})
                             /\ page.open => page.reader = "waiting" /\ page.got = 0 /\ ~page.complete
    /\ route = "live" => /\ port # "none"
                         /\ KindsIn(toPage, {"chunk", "done", "error", "cancelled"})
                         /\ KindsIn(toContent, {"chunk", "done", "error", "cancelled", "bye"})
    /\ port = "closed" => toContent = <<>>

\* The page before its "start" is relayed.
UnstartedOK ==
    AwaitsStart(page) \/ page.reader = "idle" =>
       /\ route = "none" /\ toPage = <<>> /\ page.got = 0 /\ page.reader # "holding"
       /\ page.open => page.reader = "waiting" /\ ~page.complete

StartOK ==
    worker.at = "none" /\ route # "none" => toWorker # <<>> /\ toWorker[1] = "start"

\* The worker has ended, is aborted or will be.
Told ==
    \/ worker.aborted \/ worker.at \in {"gone", "dead"}
    \/ "cancel" \in In(toWorker) \/ "bye" \in In(toWorker)

StopOK ==
    /\ page.complete => \/ Told \/ route = "buffered" \/ HasCancel(page)
                        \/ route = "none" /\ ~AwaitsStart(page)
    /\ route = "live" /\ port = "closed" => Told
    /\ route = "live" /\ (\E e \in In(toPage) : e.kind # "chunk") => Told
    /\ route = "live" /\ (\E e \in In(toContent) : e.kind # "chunk") => worker.at \in {"gone", "dead"}

StreamInv ==
    /\ Typed /\ PagesOK /\ DonesMade /\ EndsOK /\ NumberedOK
    /\ RoutesOK /\ UnstartedOK /\ StartOK /\ StopOK

---------------------------------------------------------------------------
(* What is in a sequence, and in the page's messages *)

LEMMA InAppend ==
    ASSUME NEW S, NEW w \in Seq(S), NEW e \in S
    PROVE  In(Append(w, e)) = In(w) \cup {e}
<1> DEFINE v == Append(w, e)
<1>1. /\ Len(v) = Len(w) + 1 /\ Len(w) \in Nat /\ v[Len(w) + 1] = e
      /\ \A i \in 1..Len(w) : v[i] = w[i]
  BY Appended
<1> HIDE DEF v
<1>2. In(v) = In(w) \cup {e}
  <2>1. ASSUME NEW x \in In(v)
        PROVE  x \in In(w) \cup {e}
    <3>1. PICK k \in 1..Len(v) : x = v[k]
      BY DEF In
    <3>2. CASE k \in 1..Len(w)
      BY <1>1, <3>1, <3>2 DEF In
    <3>3. CASE k = Len(w) + 1
      BY <1>1, <3>1, <3>3
    <3> QED  BY <1>1, <3>2, <3>3
  <2>2. ASSUME NEW x \in In(w)
        PROVE  x \in In(v)
    <3>1. PICK k \in 1..Len(w) : x = w[k]
      BY DEF In
    <3>2. k \in 1..Len(v) /\ v[k] = x
      BY <1>1, <3>1
    <3> QED  BY <3>2 DEF In
  <2>3. e \in In(v)
    <3>1. Len(w) + 1 \in 1..Len(v)
      BY <1>1
    <3> QED  BY <1>1, <3>1 DEF In
  <2> QED  BY <2>1, <2>2, <2>3
<1> QED  BY <1>2 DEF v

LEMMA InTail ==
    ASSUME NEW S, NEW w \in Seq(S), w # <<>>
    PROVE  In(w) = {Head(w)} \cup In(Tail(w)) /\ Head(w) = w[1] /\ Head(w) \in S
<1> DEFINE v == Tail(w)
           h == Head(w)
<1>1. /\ Len(v) = Len(w) - 1 /\ Len(w) \in Nat \ {0} /\ h = w[1] /\ h \in S
      /\ \A i \in 1..(Len(w) - 1) : v[i] = w[i + 1]
  BY Rest
<1> HIDE DEF v, h
<1>2. In(w) = {h} \cup In(v)
  <2>1. ASSUME NEW x \in In(w)
        PROVE  x \in {h} \cup In(v)
    <3>1. PICK k \in 1..Len(w) : x = w[k]
      BY DEF In
    <3>2. CASE k = 1
      BY <1>1, <3>1, <3>2
    <3>3. CASE k # 1
      <4>1. k - 1 \in 1..Len(v) /\ k - 1 \in 1..(Len(w) - 1) /\ (k - 1) + 1 = k
        BY <1>1, <3>3
      <4>2. v[k - 1] = x
        BY <1>1, <3>1, <4>1
      <4> QED  BY <4>1, <4>2 DEF In
    <3> QED  BY <3>2, <3>3
  <2>2. ASSUME NEW x \in In(v)
        PROVE  x \in In(w)
    <3>1. PICK k \in 1..Len(v) : x = v[k]
      BY DEF In
    <3>2. k \in 1..(Len(w) - 1) /\ k + 1 \in 1..Len(w)
      BY <1>1
    <3>3. x = w[k + 1]
      BY <1>1, <3>1, <3>2
    <3> QED  BY <3>2, <3>3 DEF In
  <2>3. h \in In(w)
    <3>1. 1 \in 1..Len(w)
      BY <1>1
    <3> QED  BY <1>1, <3>1 DEF In
  <2> QED  BY <2>1, <2>2, <2>3
<1> QED  BY <1>1, <1>2 DEF v, h

LEMMA InEmpty == In(<<>>) = {}
BY DEF In

LEMMA InSet ==
    ASSUME NEW S, NEW w \in Seq(S)
    PROVE  In(w) \subseteq S /\ (w # <<>> => w[1] \in In(w))
<1>1. Len(w) \in Nat /\ (Len(w) = 0 <=> w = <<>>) /\ \A i \in 1..Len(w) : w[i] \in S
  BY LengthIs
<1>2. w # <<>> => 1 \in 1..Len(w)
  BY <1>1
<1> QED  BY <1>1, <1>2 DEF In

\* The start or the cancellation that is relayed.
LEMMA OutShrinks ==
    ASSUME NEW p \in Pages, PageOK(p), p.out # <<>>, NEW q, q = [p EXCEPT !.out = Tail(@)]
    PROVE  /\ q \in Pages /\ PageOK(q) /\ ~AwaitsStart(q)
           /\ Head(p.out) # "cancel" => (HasCancel(p) => HasCancel(q))
           /\ q.open = p.open /\ q.complete = p.complete /\ q.reader = p.reader /\ q.got = p.got
           /\ q.queue = p.queue /\ q.outcome = p.outcome
           /\ Head(p.out) = "start" => AwaitsStart(p)
           /\ p.reader # "idle"
<1> DEFINE w == Tail(p.out)
           h == Head(p.out)
<1>1. p.out \in Seq({"start", "cancel"})
  BY PageIs
<1>2. /\ w \in Seq({"start", "cancel"}) /\ Len(w) = Len(p.out) - 1 /\ Len(p.out) \in Nat \ {0}
      /\ \A i \in 1..(Len(p.out) - 1) : w[i] = p.out[i + 1]
      /\ h = p.out[1] /\ h \in {"start", "cancel"}
  BY <1>1, Rest
<1>3. In(p.out) = {h} \cup In(w)
  BY <1>1, InTail
<1>4. /\ q \in Pages /\ q.out = w /\ q.open = p.open /\ q.complete = p.complete
      /\ q.reader = p.reader /\ q.got = p.got /\ q.queue = p.queue /\ q.outcome = p.outcome
  BY <1>2 DEF Pages
<1> HIDE DEF w, h
<1>5. \A i \in 1..Len(w) : w[i] # "start"
  <2> SUFFICES ASSUME NEW i \in 1..Len(w), w[i] = "start"
               PROVE  FALSE
    OBVIOUS
  <2>1. i \in 1..(Len(p.out) - 1) /\ i + 1 \in 1..Len(p.out) /\ i + 1 # 1
    BY <1>2
  <2>2. p.out[i + 1] = "start"
    BY <1>2, <2>1
  <2> QED  BY <2>1, <2>2 DEF PageOK, StartFirst
<1>6. ~AwaitsStart(q)
  <2>1. w # <<>> => 1 \in 1..Len(w)
    BY <1>2, LengthIs
  <2> QED  BY <1>4, <1>5, <2>1 DEF AwaitsStart
<1>7. StartFirst(q)
  BY <1>4, <1>5 DEF StartFirst
<1>8. p.reader # "idle"
  BY DEF PageOK
<1>9. PageOK(q)
  BY <1>4, <1>7, <1>8 DEF PageOK
<1>10. h # "cancel" => (HasCancel(p) => HasCancel(q))
  <2>1. /\ HasCancel(p) => "cancel" \in In(p.out)
        /\ "cancel" \in In(w) => HasCancel(q)
    BY <1>4 DEF HasCancel, In
  <2> QED  BY <1>3, <2>1
<1>11. h = "start" => AwaitsStart(p)
  BY <1>2 DEF AwaitsStart
<1> QED  BY <1>4, <1>6, <1>8, <1>9, <1>10, <1>11 DEF h

---------------------------------------------------------------------------
(* What is on its way *)

LEMMA WayIs ==
    ASSUME NEW S, NEW s \in Seq(S), NEW t \in Seq(S)
    PROVE  /\ s \o t \in Seq(S) /\ Len(s \o t) = Len(s) + Len(t) /\ Len(s) \in Nat /\ Len(t) \in Nat
           /\ \A k \in 1..Len(s) : (s \o t)[k] = s[k]
           /\ \A e \in S : s \o Append(t, e) = Append(s \o t, e)
           /\ t = <<>> => s \o t = s
           /\ t # <<>> => Append(s, Head(t)) \o Tail(t) = s \o t
           /\ s # <<>> => Tail(s) \o t = Tail(s \o t) /\ Head(s \o t) = Head(s) /\ s \o t # <<>>
           /\ t # <<>> => (s \o t)[Len(s) + 1] = Head(t)
<1>1. /\ s \o t \in Seq(S) /\ Len(s \o t) = Len(s) + Len(t) /\ Len(s) \in Nat /\ Len(t) \in Nat
      /\ \A k \in 1..Len(s) : (s \o t)[k] = s[k]
  OBVIOUS
<1>2. \A e \in S : s \o Append(t, e) = Append(s \o t, e)
  OBVIOUS
<1>3. t = <<>> => s \o t = s
  OBVIOUS
<1>4. t # <<>> => Append(s, Head(t)) \o Tail(t) = s \o t
  OBVIOUS
<1>5. s # <<>> => Tail(s) \o t = Tail(s \o t)
  OBVIOUS
<1>6. s # <<>> => Head(s \o t) = Head(s) /\ s \o t # <<>>
  OBVIOUS
<1>7. t # <<>> => (s \o t)[Len(s) + 1] = Head(t)
  OBVIOUS
<1> QED  BY <1>1, <1>2, <1>3, <1>4, <1>5, <1>6, <1>7

\* One more message at the end of the pipe.
LEMMA NumAppend ==
    ASSUME NEW w \in Seq(Messages), NEW e \in Messages, NEW next \in Nat, Numbered(w, next),
           AllChunks(w) /\ e.kind \in {"chunk", "done"} => e.n = next + Len(w)
    PROVE  /\ Numbered(Append(w, e), next)
           /\ AllChunks(Append(w, e)) => AllChunks(w) /\ e.kind = "chunk"
<1> DEFINE v == Append(w, e)
<1>1. /\ Len(v) = Len(w) + 1 /\ Len(w) \in Nat /\ v[Len(w) + 1] = e
      /\ \A i \in 1..Len(w) : v[i] = w[i]
  BY Appended
<1> HIDE DEF v
<1>2. AllChunks(v) => AllChunks(w) /\ e.kind = "chunk"
  <2>1. Len(w) + 1 \in 1..Len(v) /\ \A i \in 1..Len(w) : i \in 1..Len(v)
    BY <1>1
  <2> QED  BY <1>1, <2>1 DEF AllChunks
<1>3. ASSUME NEW k \in 1..Len(v), \A j \in 1..(k - 1) : v[j].kind = "chunk",
             v[k].kind \in {"chunk", "done"}
      PROVE  v[k].n = next + (k - 1)
  <2>1. CASE k \in 1..Len(w)
    <3>1. \A j \in 1..(k - 1) : w[j].kind = "chunk"
      BY <1>1, <1>3, <2>1
    <3> QED  BY <1>1, <1>3, <2>1, <3>1 DEF Numbered
  <2>2. CASE k = Len(w) + 1
    <3>1. AllChunks(w)
      BY <1>1, <1>3, <2>2 DEF AllChunks
    <3>2. k - 1 = Len(w)
      BY <1>1, <2>2
    <3> QED  BY <1>1, <1>3, <2>2, <3>1, <3>2
  <2> QED  BY <1>1, <2>1, <2>2
<1>4. Numbered(v, next)
  BY <1>3 DEF Numbered
<1> QED  BY <1>2, <1>4 DEF v

\* The first message leaves it.
LEMMA NumTail ==
    ASSUME NEW w \in Seq(Messages), w # <<>>, NEW next \in Nat, Numbered(w, next)
    PROVE  /\ Head(w).kind \in {"chunk", "done"} => Head(w).n = next
           /\ Head(w).kind = "chunk" => /\ Numbered(Tail(w), next + 1)
                                        /\ AllChunks(Tail(w)) => AllChunks(w)
<1> DEFINE v == Tail(w)
           h == Head(w)
<1>1. /\ Len(v) = Len(w) - 1 /\ Len(w) \in Nat \ {0} /\ h = w[1]
      /\ \A i \in 1..(Len(w) - 1) : v[i] = w[i + 1]
  BY Rest
<1> HIDE DEF v, h
<1>2. h.kind \in {"chunk", "done"} => h.n = next
  <2>1. 1 \in 1..Len(w) /\ \A j \in 1..(1 - 1) : w[j].kind = "chunk"
    BY <1>1
  <2>2. h.kind \in {"chunk", "done"} => w[1].n = next + (1 - 1)
    BY <1>1, <2>1 DEF Numbered
  <2> QED  BY <1>1, <2>2
<1>3. ASSUME h.kind = "chunk", NEW k \in 1..Len(v), \A j \in 1..(k - 1) : v[j].kind = "chunk"
      PROVE  \A j \in 1..((k + 1) - 1) : w[j].kind = "chunk"
  <2> SUFFICES ASSUME NEW j \in 1..((k + 1) - 1)
               PROVE  w[j].kind = "chunk"
    OBVIOUS
  <2>1. CASE j = 1
    BY <1>1, <1>3, <2>1
  <2>2. CASE j # 1
    <3>1. j - 1 \in 1..(k - 1) /\ j - 1 \in 1..(Len(w) - 1) /\ (j - 1) + 1 = j
      BY <1>1, <2>2
    <3>2. v[j - 1] = w[j]
      BY <1>1, <3>1
    <3> QED  BY <1>3, <3>1, <3>2
  <2> QED  BY <2>1, <2>2
<1>4. ASSUME h.kind = "chunk"
      PROVE  Numbered(v, next + 1)
  <2> SUFFICES ASSUME NEW k \in 1..Len(v), \A j \in 1..(k - 1) : v[j].kind = "chunk",
                      v[k].kind \in {"chunk", "done"}
               PROVE  v[k].n = (next + 1) + (k - 1)
    BY DEF Numbered
  <2>1. k + 1 \in 1..Len(w) /\ v[k] = w[k + 1]
    BY <1>1
  <2>2. w[k + 1].n = next + ((k + 1) - 1)
    BY <1>3, <1>4, <2>1 DEF Numbered
  <2>3. next + ((k + 1) - 1) = (next + 1) + (k - 1)
    BY <1>1
  <2> QED  BY <2>1, <2>2, <2>3
<1>5. ASSUME h.kind = "chunk", AllChunks(v)
      PROVE  AllChunks(w)
  <2> SUFFICES ASSUME NEW j \in 1..Len(w)
               PROVE  w[j].kind = "chunk"
    BY DEF AllChunks
  <2>1. CASE j = 1
    BY <1>1, <1>5, <2>1
  <2>2. CASE j # 1
    <3>1. j - 1 \in 1..Len(v) /\ j - 1 \in 1..(Len(w) - 1) /\ (j - 1) + 1 = j
      BY <1>1, <2>2
    <3>2. v[j - 1] = w[j]
      BY <1>1, <3>1
    <3> QED  BY <1>5, <3>1, <3>2 DEF AllChunks
  <2> QED  BY <2>1, <2>2
<1> QED  BY <1>2, <1>4, <1>5 DEF v, h

\* What comes after a part of it is lost.
LEMMA NumPrefix ==
    ASSUME NEW s \in Seq(Messages), NEW t \in Seq(Messages), NEW next \in Nat, Numbered(s \o t, next)
    PROVE  /\ Numbered(s, next)
           /\ AllChunks(s) /\ t # <<>> /\ Head(t).kind \in {"chunk", "done"} => Head(t).n = next + Len(s)
<1> DEFINE w == s \o t
<1>1. /\ Len(w) = Len(s) + Len(t) /\ Len(s) \in Nat /\ Len(t) \in Nat
      /\ \A k \in 1..Len(s) : w[k] = s[k]
      /\ t # <<>> => w[Len(s) + 1] = Head(t) /\ Len(t) # 0
  BY WayIs, LengthIs
<1> HIDE DEF w
<1>2. Numbered(w, next)
  BY DEF w
<1>3. Numbered(s, next)
  <2> SUFFICES ASSUME NEW k \in 1..Len(s), \A j \in 1..(k - 1) : s[j].kind = "chunk",
                      s[k].kind \in {"chunk", "done"}
               PROVE  s[k].n = next + (k - 1)
    BY DEF Numbered
  <2>1. k \in 1..Len(w) /\ w[k] = s[k] /\ \A j \in 1..(k - 1) : w[j].kind = "chunk"
    BY <1>1
  <2> QED  BY <1>2, <2>1 DEF Numbered
<1>4. ASSUME AllChunks(s), t # <<>>, Head(t).kind \in {"chunk", "done"}
      PROVE  Head(t).n = next + Len(s)
  <2>1. Len(s) + 1 \in 1..Len(w) /\ (Len(s) + 1) - 1 = Len(s)
    BY <1>1, <1>4
  <2>2. \A j \in 1..((Len(s) + 1) - 1) : w[j].kind = "chunk"
    BY <1>1, <1>4, <2>1 DEF AllChunks
  <2>3. w[Len(s) + 1].n = next + ((Len(s) + 1) - 1)
    BY <1>1, <1>2, <1>4, <2>1, <2>2 DEF Numbered
  <2> QED  BY <1>1, <1>4, <2>1, <2>3
<1> QED  BY <1>3, <1>4

---------------------------------------------------------------------------
(* The steps of the page *)

LEMMA TypesAre ==
    ASSUME Typed
    PROVE  /\ page \in Pages /\ worker \in Workers /\ worker.made \in 0..MaxChunks /\ worker.made \in Nat
           /\ worker.at \in Working \cup {"none", "gone", "dead"} /\ worker.aborted \in BOOLEAN
           /\ toWorker \in Seq({"start", "cancel", "bye"})
           /\ toContent \in Seq(Messages) /\ toPage \in Seq(Messages) /\ Way \in Seq(Messages)
           /\ page.got \in Nat /\ Len(page.queue) \in Nat /\ Following(page) \in Nat
<1>1. page.got \in Nat /\ Len(page.queue) \in Nat
  BY PageIs DEF Typed
<1>2. Way \in Seq(Messages)
  BY WayIs DEF Typed, Way
<1> QED  BY <1>1, <1>2, StreamRelayAssumption DEF Typed, Workers, Following

\* A step of the reader or of a timer.
LEMMA LocalKeeps ==
    ASSUME StreamInv, LocalMove(page, page'), page.reader # "idle",
           UNCHANGED <<port, route, worker, toWorker, toContent, toPage>>
    PROVE  StreamInv'
<1> USE DEF StreamInv
<1>1. /\ page' \in Pages /\ PageOK(page') /\ page'.reader # "idle"
      /\ (AwaitsStart(page') <=> AwaitsStart(page)) /\ (HasCancel(page) => HasCancel(page'))
      /\ (page'.open => page.open) /\ (page.complete => page'.complete)
  BY DEF LocalMove, Moves
<1>2. page.open \/ page.complete
  BY DEF PagesOK
<1>3. Typed'
  BY <1>1 DEF Typed
<1>4. PagesOK'
  BY <1>1, <1>2 DEF PagesOK, LocalMove
<1>5. DonesMade'
  BY TypesAre DEF DonesMade, LocalMove
<1>6. EndsOK'
  BY DEF EndsOK, Ends
<1>7. NumberedOK'
  BY <1>1 DEF NumberedOK, LocalMove, Way
<1>8. RoutesOK'
  <2>1. route = "buffered" /\ page'.open =>
           page'.reader = "waiting" /\ page'.got = 0 /\ ~page'.complete
    BY <1>1 DEF RoutesOK, LocalMove
  <2> QED  BY <2>1 DEF RoutesOK
<1>9. UnstartedOK'
  <2> SUFFICES ASSUME AwaitsStart(page')
               PROVE  /\ route = "none" /\ toPage = <<>> /\ page'.got = 0 /\ page'.reader # "holding"
                      /\ page'.open => page'.reader = "waiting" /\ ~page'.complete
    BY <1>1 DEF UnstartedOK
  <2>1. /\ route = "none" /\ toPage = <<>> /\ page.got = 0 /\ page.reader # "holding"
        /\ page.open => page.reader = "waiting" /\ ~page.complete
    BY <1>1 DEF UnstartedOK
  <2> QED  BY <1>1, <2>1 DEF LocalMove
<1>10. StartOK'
  BY DEF StartOK
<1>11. StopOK'
  BY <1>1 DEF StopOK, Told, LocalMove
<1> QED  BY <1>3, <1>4, <1>5, <1>6, <1>7, <1>8, <1>9, <1>10, <1>11

LEMMA LocalSteps ==
    ASSUME StreamInv, Ask \/ Leave \/ SdkTimeout \/ TimerFires \/ Abort
    PROVE  /\ LocalMove(page, page') /\ page.reader # "idle"
           /\ UNCHANGED <<port, route, worker, toWorker, toContent, toPage>>
<1> USE DEF StreamInv
<1>1. page \in Pages /\ PageOK(page)
  BY DEF Typed, PagesOK
<1>2. CASE Ask
  <2>1. /\ page.reader = "holding"
        /\ UNCHANGED <<port, route, worker, toWorker, toContent, toPage>>
    BY <1>2 DEF Ask
  <2>2. CASE page.aborted
    <3>1. page' = Finish(page, "cancelled")
      BY <1>2, <2>2 DEF Ask
    <3>2. LocalMove(page, page')
      BY <1>1, <2>1, <3>1, FinishMoves
    <3> QED  BY <2>1, <3>2
  <2>3. CASE ~page.aborted /\ page.queue = <<>>
    <3>1. page' = [page EXCEPT !.reader = "waiting"]
      BY <1>2, <2>3 DEF Ask
    <3>2. LocalMove(page, page')
      BY <1>1, <2>1, <2>3, <3>1, WaitMoves
    <3> QED  BY <2>1, <3>2
  <2>4. CASE ~page.aborted /\ page.queue # <<>>
    <3>1. page' = Hand([page EXCEPT !.queue = Tail(@)], Head(page.queue))
      BY <1>2, <2>4 DEF Ask
    <3>2. LocalMove(page, page')
      BY <1>1, <2>1, <2>4, <3>1, AskMoves
    <3> QED  BY <2>1, <3>2
  <2> QED  BY <2>2, <2>3, <2>4
<1>3. CASE Leave
  <2>1. /\ page.reader = "holding"
        /\ UNCHANGED <<port, route, worker, toWorker, toContent, toPage>>
        /\ page' = Finish(page, "left")
    BY <1>3 DEF Leave
  <2>2. LocalMove(page, page')
    BY <1>1, <2>1, FinishMoves
  <2> QED  BY <2>1, <2>2
<1>4. CASE SdkTimeout
  <2>1. /\ page.reader = "waiting"
        /\ UNCHANGED <<port, route, worker, toWorker, toContent, toPage>>
        /\ page' = [page EXCEPT !.returning = TRUE]
    BY <1>4 DEF SdkTimeout
  <2>2. Alike(page, page')
    BY <1>1, <2>1, IntendIs
  <2>3. LocalMove(page, page')
    BY <1>1, <2>1, <2>2, AlikeIs
  <2> QED  BY <2>1, <2>3
<1>5. CASE TimerFires
  <2>1. page.open /\ UNCHANGED <<port, route, worker, toWorker, toContent, toPage>>
        /\ page' = Terminate(page, "timeout") /\ "timeout" \in Failures
    BY <1>5 DEF TimerFires, Failures
  <2>2. LocalMove(page, page') /\ page.reader # "idle"
    BY <1>1, <2>1, TerminateMoves DEF PageOK
  <2> QED  BY <2>1, <2>2
<1>6. CASE Abort
  <2> DEFINE p == [page EXCEPT !.aborted = TRUE]
  <2>1. /\ page.reader # "idle"
        /\ UNCHANGED <<port, route, worker, toWorker, toContent, toPage>>
        /\ page' = IF page.open THEN Terminate(p, "cancelled") ELSE p
    BY <1>6 DEF Abort
  <2>2. Alike(page, p)
    BY <1>1, IntendIs
  <2> HIDE DEF p
  <2>3. p \in Pages /\ PageOK(p) /\ p.open = page.open /\ LocalMove(page, p)
        /\ \A q : LocalMove(p, q) => LocalMove(page, q)
    BY <1>1, <2>1, <2>2, AlikeIs DEF Alike
  <2>4. CASE page.open
    <3>1. page' = Terminate(p, "cancelled") /\ "cancelled" \in Failures /\ p.open
      BY <2>1, <2>3, <2>4 DEF Failures
    <3>2. LocalMove(p, page')
      BY <2>3, <3>1, TerminateMoves
    <3> QED  BY <2>1, <2>3, <3>2
  <2>5. CASE ~page.open
    BY <2>1, <2>3, <2>5
  <2> QED  BY <2>4, <2>5
<1> QED  BY <1>2, <1>3, <1>4, <1>5, <1>6

\* The reader starts: the page is idle, so nothing is on its way.
LEMMA StartKeeps ==
    ASSUME StreamInv, Start
    PROVE  StreamInv'
<1> USE DEF StreamInv
<1> DEFINE out == <<"start">>
<1>1. /\ page \in Pages /\ PageOK(page) /\ page.reader = "idle"
      /\ page' = [page EXCEPT !.open = TRUE, !.reader = "waiting", !.out = out]
      /\ UNCHANGED <<port, route, worker, toWorker, toContent, toPage>>
  BY DEF Typed, PagesOK, Start
<1>2. out \in Seq({"start", "cancel"}) /\ Len(out) = 1 /\ out[1] = "start" /\ out # <<>>
      /\ \A i \in 1..Len(out) : i = 1
  OBVIOUS
<1> HIDE DEF out
<1>3. /\ page' \in Pages /\ page'.open = TRUE /\ page'.reader = "waiting" /\ page'.out = out
      /\ page'.complete = page.complete /\ page'.queue = page.queue /\ page'.got = page.got
      /\ page'.outcome = page.outcome
  BY <1>1, <1>2 DEF Pages, Readers
<1>4. /\ page.queue = <<>>
      /\ Len(page.queue) = 0
      /\ ~page.complete
      /\ page.got = 0
      /\ page.outcome = "none"
  BY <1>1, EmptyIs DEF PageOK
<1>5. StartFirst(page') /\ AwaitsStart(page')
  BY <1>2, <1>3 DEF StartFirst, AwaitsStart
<1>6. PageOK(page')
  BY <1>3, <1>4, <1>5, StreamRelayAssumption DEF PageOK, ValuesUpTo
<1>7. route = "none" /\ toPage = <<>>
  BY <1>1 DEF UnstartedOK
<1>8. Typed'
  BY <1>1, <1>3 DEF Typed
<1>9. PagesOK'
  BY <1>3, <1>6 DEF PagesOK
<1>10. DonesMade'
  BY <1>1, <1>3, <1>4 DEF DonesMade, DonesOK, HasDone
<1>11. EndsOK'
  BY <1>1 DEF EndsOK, Ends
<1>12. NumberedOK'
  BY <1>1, <1>7 DEF NumberedOK
<1>13. RoutesOK'
  BY <1>1, <1>7 DEF RoutesOK
<1>14. UnstartedOK'
  BY <1>1, <1>3, <1>4, <1>7 DEF UnstartedOK
<1>15. StartOK'
  BY <1>1 DEF StartOK
<1>16. StopOK'
  BY <1>1, <1>3, <1>4, <1>7 DEF StopOK, Told
<1> QED  BY <1>8, <1>9, <1>10, <1>11, <1>12, <1>13, <1>14, <1>15, <1>16

\* What the message at the head of toPage makes of the page.
LEMMA ReceiveStep ==
    ASSUME StreamInv, PageReceives, NEW e, e = Head(toPage)
    PROVE  /\ e \in Messages /\ e \in In(toPage) /\ In(toPage') \subseteq In(toPage)
           /\ toPage # <<>> /\ toPage' = Tail(toPage) /\ toPage' \in Seq(Messages)
           /\ \/ page' = page /\ (~page.open \/ page.complete)
              \/ page.open /\ ~page.complete /\ TakesMessage(page, page', e)
           /\ UNCHANGED <<port, route, worker, toWorker, toContent>>
<1> USE DEF StreamInv
<1>1. /\ page \in Pages /\ PageOK(page) /\ toPage # <<>> /\ toPage' = Tail(toPage)
      /\ page' = IF e.kind \in {"whole", "failed"} THEN Buffered(page, e) ELSE Live(page, e)
      /\ UNCHANGED <<port, route, worker, toWorker, toContent>>
      /\ toPage \in Seq(Messages)
  BY DEF PageReceives, PagesOK, Typed
<1>2. /\ e \in Messages
      /\ e \in In(toPage)
      /\ In(toPage') \subseteq In(toPage)
      /\ toPage' \in Seq(Messages)
  BY <1>1, InTail, Rest
<1>3. /\ page.got \in Nat /\ Len(page.queue) \in Nat /\ Following(page) \in Nat
      /\ Way \in Seq(Messages)
  BY TypesAre
<1>4. CASE ~page.open
  <2>1. page' = page
    BY <1>1, <1>4 DEF Buffered, Live
  <2> QED  BY <1>1, <1>2, <1>4, <2>1
<1>5. CASE page.open /\ e.kind \in {"whole", "failed"}
  <2>1. route = "buffered"
    BY <1>2, <1>5 DEF RoutesOK, KindsIn, Typed
  <2>2. page.reader = "waiting" /\ page.got = 0 /\ ~page.complete
    BY <1>5, <2>1 DEF RoutesOK
  <2>3. page' = Buffered(page, e)
    BY <1>1, <1>5
  <2>4. TakesMessage(page, page', e)
    BY <1>1, <1>2, <1>5, <2>2, <2>3, BufferedFails, BufferedWhole
  <2> QED  BY <1>1, <1>2, <1>5, <2>2, <2>4
<1>6. CASE page.open /\ e.kind \notin {"whole", "failed"} /\ page.complete
  <2>1. page' = page
    BY <1>1, <1>6 DEF Live
  <2> QED  BY <1>1, <1>2, <1>6, <2>1
<1>7. CASE page.open /\ e.kind \notin {"whole", "failed"} /\ ~page.complete
  <2>1. page' = Live(page, e)
    BY <1>1, <1>7
  <2>2. CASE e.kind \in {"chunk", "done"}
    <3>1. route = "live"
      BY <1>2, <2>2 DEF RoutesOK, KindsIn, Typed
    <3>2. Numbered(Way, Following(page))
      BY <1>7, <3>1 DEF NumberedOK
    <3>3. Way # <<>> /\ Head(Way) = e
      BY <1>1, WayIs DEF Way, Typed
    <3>4. e.n = Following(page)
      BY <1>3, <2>2, <3>2, <3>3, NumTail
    <3> QED  BY <1>1, <1>2, <1>7, <2>1, <2>2, <3>4, LiveChunk, LiveDone
  <2>3. CASE e.kind \in {"error", "cancelled"}
    <3>1. page' = EnqueueAll(Detach(page), <<Failure(e.kind)>>) /\ e.kind \in Failures
      BY <1>7, <2>1, <2>3 DEF Live, LiveEntries, Failures
    <3> QED  BY <1>1, <1>2, <1>7, <2>3, <3>1, LiveFailure
  <2>4. e.kind \in {"chunk", "done", "error", "cancelled"}
    BY <1>2, <1>7 DEF RoutesOK, KindsIn, Typed
  <2> QED  BY <2>2, <2>3, <2>4
<1> QED  BY <1>4, <1>5, <1>6, <1>7

\* The page takes a message.
LEMMA ReceiveKeeps ==
    ASSUME StreamInv, PageReceives
    PROVE  StreamInv'
<1> USE DEF StreamInv
<1> DEFINE e == Head(toPage)
<1>1. /\ e \in Messages /\ e \in In(toPage) /\ In(toPage') \subseteq In(toPage)
      /\ toPage # <<>> /\ toPage' = Tail(toPage) /\ toPage' \in Seq(Messages)
      /\ \/ page' = page /\ (~page.open \/ page.complete)
         \/ page.open /\ ~page.complete /\ TakesMessage(page, page', e)
      /\ UNCHANGED <<port, route, worker, toWorker, toContent>>
  BY ReceiveStep
<1>2. e = Head(toPage)
  OBVIOUS
<1> HIDE DEF e
<1>3. /\ page \in Pages /\ PageOK(page)
      /\ page.got \in Nat /\ Len(page.queue) \in Nat /\ Following(page) \in Nat
      /\ Way \in Seq(Messages) /\ worker.made \in Nat /\ worker.made + 1 \in Nat
  BY TypesAre DEF PagesOK
<1>4. ~AwaitsStart(page) /\ page.reader # "idle"
  BY <1>1 DEF UnstartedOK
<1>5. /\ page' \in Pages /\ PageOK(page') /\ page'.reader # "idle"
      /\ ~AwaitsStart(page') /\ (HasCancel(page) => HasCancel(page'))
      /\ (page'.open => page.open) /\ (page.complete => page'.complete)
  BY <1>1, <1>3, <1>4 DEF TakesMessage, Moves
<1>6. Typed'
  BY <1>1, <1>5 DEF Typed
<1>7. PagesOK'
  BY <1>1, <1>4, <1>5 DEF PagesOK, TakesMessage
<1>8. DonesMade'
  <2>1. e.kind \in {"done", "whole"} => worker.at = "gone" /\ e.n = worker.made + 1
    BY <1>1 DEF EndsOK, Ends
  <2>2. CASE page' = page
    BY <1>1, <2>2 DEF DonesMade
  <2>3. CASE TakesMessage(page, page', e)
    BY <1>1, <1>3, <2>1, <2>3 DEF DonesMade, TakesMessage
  <2> QED  BY <1>1, <2>2, <2>3
<1>9. EndsOK'
  BY <1>1 DEF EndsOK, Ends
<1>10. NumberedOK'
  <2> SUFFICES ASSUME route = "live", page'.open, ~page'.complete
               PROVE  /\ Numbered(Way', Following(page'))
                      /\ AllChunks(Way') /\ port = "open" =>
                            worker.made + 1 = Following(page') + Len(Way')
    BY <1>1 DEF NumberedOK
  <2>1. /\ page.open
        /\ ~page.complete
        /\ e.kind = "chunk"
        /\ Following(page') = Following(page) + 1
    BY <1>1, <1>5 DEF TakesMessage
  <2>2. Way' = Tail(Way) /\ Way # <<>> /\ Head(Way) = e
    BY <1>1, <1>2, WayIs DEF Way, Typed
  <2>3. Numbered(Way, Following(page))
        /\ (AllChunks(Way) /\ port = "open" => worker.made + 1 = Following(page) + Len(Way))
    BY <2>1 DEF NumberedOK
  <2>4. Numbered(Tail(Way), Following(page) + 1) /\ (AllChunks(Tail(Way)) => AllChunks(Way))
    BY <1>3, <2>1, <2>2, <2>3, NumTail
  <2>5. Len(Tail(Way)) = Len(Way) - 1 /\ Len(Way) \in Nat
    BY <1>3, <2>2, Rest
  <2> HIDE DEF StreamInv
  <2> QED  BY <1>3, <2>1, <2>2, <2>3, <2>4, <2>5
<1>11. RoutesOK'
  <2>1. \A kinds : KindsIn(toPage, kinds) => KindsIn(toPage', kinds)
    BY <1>1 DEF KindsIn
  <2>2. route = "buffered" => ~page'.open
    <3>1. route = "buffered" => e.kind # "chunk"
      BY <1>1 DEF RoutesOK, KindsIn
    <3>2. route = "buffered" /\ page.open => ~page.complete
      BY DEF RoutesOK
    <3> QED  BY <1>1, <1>5, <3>1, <3>2 DEF TakesMessage
  <2> QED  BY <1>1, <2>1, <2>2 DEF RoutesOK
<1>12. UnstartedOK'
  BY <1>5 DEF UnstartedOK
<1>13. StartOK'
  BY <1>1 DEF StartOK
<1>14. StopOK'
  <2>1. Told' <=> Told
    BY <1>1 DEF Told
  <2>2. page'.complete => \/ Told \/ route = "buffered" \/ HasCancel(page')
                          \/ route = "none" /\ ~AwaitsStart(page')
    <3>1. CASE page.complete
      BY <1>4, <1>5, <3>1 DEF StopOK
    <3>2. CASE ~page.complete /\ page'.complete
      <4>1. HasCancel(page') \/ e.kind # "chunk"
        BY <1>1, <3>2 DEF TakesMessage
      <4>2. route = "live" /\ e.kind # "chunk" => Told
        BY <1>1 DEF StopOK
      <4>3. route \in {"none", "live", "buffered"}
        BY DEF Typed
      <4> QED  BY <1>5, <4>1, <4>2, <4>3
    <3> QED  BY <3>1, <3>2
  <2> QED  BY <1>1, <2>1, <2>2 DEF StopOK
<1> QED  BY <1>6, <1>7, <1>8, <1>9, <1>10, <1>11, <1>12, <1>13, <1>14

---------------------------------------------------------------------------
(* The content script *)

\* What a step that relays a message of the page leaves of it.
LEMMA OutStep ==
    ASSUME StreamInv, page.out # <<>>, page' = [page EXCEPT !.out = Tail(@)]
    PROVE  /\ page' \in Pages /\ PageOK(page') /\ ~AwaitsStart(page')
           /\ Head(page.out) # "cancel" => (HasCancel(page) => HasCancel(page'))
           /\ page'.open = page.open /\ page'.complete = page.complete
           /\ page'.reader = page.reader /\ page'.got = page.got
           /\ page'.queue = page.queue /\ page'.outcome = page.outcome
           /\ Head(page.out) = "start" => AwaitsStart(page)
           /\ page.reader # "idle" /\ PagesOK'
           /\ Following(page') = Following(page) /\ (HasDone(page') <=> HasDone(page))
           /\ \A m : DonesOK(page', m) <=> DonesOK(page, m)
<1>1. page \in Pages /\ PageOK(page)
  BY DEF StreamInv, Typed, PagesOK
<1>2. /\ page' \in Pages /\ PageOK(page') /\ ~AwaitsStart(page')
      /\ Head(page.out) # "cancel" => (HasCancel(page) => HasCancel(page'))
      /\ page'.open = page.open /\ page'.complete = page.complete
      /\ page'.reader = page.reader /\ page'.got = page.got
      /\ page'.queue = page.queue /\ page'.outcome = page.outcome
      /\ Head(page.out) = "start" => AwaitsStart(page)
      /\ page.reader # "idle"
  BY <1>1, OutShrinks
<1>3. PagesOK'
  BY <1>2 DEF StreamInv, PagesOK
<1>4. /\ Following(page') = Following(page) /\ (HasDone(page') <=> HasDone(page))
      /\ \A m : DonesOK(page', m) <=> DonesOK(page, m)
  BY <1>2 DEF Following, HasDone, DonesOK
<1> QED  BY <1>2, <1>3, <1>4

\* The "start" is relayed, over a port, by a message or not at all.
LEMMA RelayKeeps ==
    ASSUME StreamInv, Relay
    PROVE  StreamInv'
<1> DEFINE ws == <<"start">>
<1>1. /\ page.out # <<>> /\ Head(page.out) = "start" /\ page' = [page EXCEPT !.out = Tail(@)]
      /\ UNCHANGED <<worker, toContent, toPage>>
      /\ \/ route' = "live" /\ port' = "open" /\ toWorker' = ws
         \/ route' = "buffered" /\ toWorker' = ws /\ UNCHANGED port
         \/ UNCHANGED <<route, port, toWorker>>
  BY DEF Relay
<1>2. ws \in Seq({"start", "cancel", "bye"}) /\ ws # <<>> /\ ws[1] = "start" /\ Len(ws) = 1
  OBVIOUS
<1>3. In(ws) \subseteq {"start"}
  BY DEF In
<1> HIDE DEF ws
<1>4. /\ page' \in Pages /\ PageOK(page') /\ ~AwaitsStart(page')
      /\ HasCancel(page) => HasCancel(page')
      /\ page'.open = page.open /\ page'.complete = page.complete
      /\ page'.reader = page.reader /\ page'.got = page.got
      /\ page'.queue = page.queue /\ page'.outcome = page.outcome
      /\ AwaitsStart(page)
      /\ page.reader # "idle" /\ PagesOK'
      /\ Following(page') = Following(page) /\ (HasDone(page') <=> HasDone(page))
      /\ \A m : DonesOK(page', m) <=> DonesOK(page, m)
  BY <1>1, OutStep
<1> USE DEF StreamInv
<1>5. /\ route = "none" /\ toPage = <<>> /\ page.got = 0 /\ page.reader # "holding"
      /\ page.open => page.reader = "waiting" /\ ~page.complete
  BY <1>4 DEF UnstartedOK
<1>6. /\ port = "none"
      /\ worker.at = "none"
      /\ worker.made = 0
      /\ toWorker = <<>>
      /\ toContent = <<>>
  BY <1>5 DEF RoutesOK
<1>7. Typed'
  BY <1>1, <1>2, <1>4 DEF Typed
<1>8. DonesMade'
  BY <1>1, <1>4 DEF DonesMade
<1>9. EndsOK'
  BY <1>1 DEF EndsOK, Ends
<1>10. NumberedOK'
  <2> SUFFICES ASSUME page'.open, ~page'.complete
               PROVE  Numbered(Way', Following(page')) /\ worker'.made + 1 = Following(page') + Len(Way')
    BY DEF NumberedOK
  <2> DEFINE none == <<>>
  <2>1. toPage' = none /\ toContent' = none /\ none \in Seq(Messages) /\ Len(none) = 0
    BY <1>1, <1>5, <1>6, EmptyIs
  <2>2. page.queue = none /\ Len(page.queue) = 0
    BY <1>4, <1>5, <2>1 DEF PageOK, PagesOK
  <2> HIDE DEF none
  <2>3. Way' = none
    BY <2>1, WayIs DEF Way
  <2>4. Numbered(Way', Following(page'))
    BY <2>1, <2>3 DEF Numbered
  <2>5. Following(page') = 1
    BY <1>4, <1>5, <2>2 DEF Following
  <2> QED  BY <1>1, <1>6, <2>1, <2>3, <2>4, <2>5
<1>11. RoutesOK'
  <2>1. In(toPage') = {} /\ In(toContent') = {}
    BY <1>1, <1>5, <1>6, InEmpty
  <2>2. \A kinds : KindsIn(toPage', kinds) /\ KindsIn(toContent', kinds)
    BY <2>1 DEF KindsIn
  <2> QED  BY <1>1, <1>4, <1>5, <1>6, <1>3, <2>2 DEF RoutesOK
<1>12. UnstartedOK'
  BY <1>4 DEF UnstartedOK
<1>13. StartOK'
  BY <1>1, <1>2, <1>5 DEF StartOK
<1>14. StopOK'
  <2>1. In(toPage') = {} /\ In(toContent') = {}
    BY <1>1, <1>5, <1>6, InEmpty
  <2>2. page'.complete => HasCancel(page') \/ Told \/ route' \in {"none", "buffered"}
    <3>1. page.complete => ~page.open
      BY <1>5
    <3>2. page.complete => Told \/ HasCancel(page)
      BY <1>4, <1>5 DEF StopOK
    <3> QED  BY <1>4, <3>2
  <2>3. Told => Told'
    <3>1. In(toWorker) = {}
      BY <1>6, InEmpty
    <3> QED  BY <1>1, <3>1 DEF Told
  <2> QED  BY <1>1, <1>4, <1>5, <1>6, <2>1, <2>2, <2>3 DEF StopOK
<1> QED  BY <1>4, <1>7, <1>8, <1>9, <1>10, <1>11, <1>12, <1>13, <1>14

\* The port is closed, and the page is told with the messages of events.
Closes(events) ==
    /\ Cleanup(events) /\ toContent' = <<>>
    /\ route = "live" /\ port = "open" /\ UNCHANGED <<route, worker>>

\* The message m is all the page is told; a "done" is the worker's.
Last(events, m) ==
    /\ events = <<m>> /\ m.kind \in {"error", "cancelled", "done"}
    /\ m.kind = "done" => toContent # <<>> /\ m = Head(toContent)

LEMMA ClosesTells ==
    ASSUME Typed, NEW events, Closes(events)
    PROVE  Told' /\ toWorker' \in Seq({"start", "cancel", "bye"})
           /\ (toWorker # <<>> => toWorker' # <<>> /\ toWorker'[1] = toWorker[1])
<1> DEFINE b == "bye"
           S == {"start", "cancel", "bye"}
<1>1. toWorker \in Seq(S) /\ b \in S /\ toWorker' = Append(toWorker, b)
  BY DEF Typed, Closes, Cleanup
<1> HIDE DEF b, S
<1>2. In(toWorker') = In(toWorker) \cup {b} /\ toWorker' \in Seq(S)
  BY <1>1, InAppend, Appended
<1>3. toWorker # <<>> => toWorker' # <<>> /\ toWorker'[1] = toWorker[1]
  BY <1>1
<1> QED  BY <1>2, <1>3 DEF Told, b, S

\* What closing the port does to the pipe.
LEMMA ClosesPipe ==
    ASSUME StreamInv, NEW events, Closes(events), page'.open = page.open, page'.complete = page.complete,
           Following(page') = Following(page),
           events = <<>> \/ \E m \in Messages : Last(events, m)
    PROVE  /\ toPage' \in Seq(Messages) /\ EndsOK' /\ NumberedOK'
           /\ KindsIn(toPage', {"chunk", "done", "error", "cancelled"})
<1> USE DEF StreamInv
<1>1. /\ toPage \in Seq(Messages) /\ toContent \in Seq(Messages) /\ Following(page) \in Nat
      /\ toPage' = toPage \o events /\ route' = "live" /\ port' = "closed" /\ toContent' = <<>>
      /\ worker' = worker /\ route = "live" /\ port = "open"
  BY TypesAre DEF Closes, Cleanup
<1>2. KindsIn(toPage, {"chunk", "done", "error", "cancelled"})
  BY <1>1 DEF RoutesOK
<1>3. Ends(toPage) /\ Ends(toContent)
  BY DEF EndsOK
<1>4. Way' = toPage' \/ toPage' \notin Seq(Messages)
  BY <1>1, WayIs, EmptyIs DEF Way
<1>5. page.open /\ ~page.complete => Numbered(toPage \o toContent, Following(page))
  BY <1>1 DEF NumberedOK, Way
<1>6. page.open /\ ~page.complete =>
         /\ Numbered(toPage, Following(page))
         /\ AllChunks(toPage) /\ toContent # <<>> /\ Head(toContent).kind \in {"chunk", "done"}
            => Head(toContent).n = Following(page) + Len(toPage)
  BY <1>1, <1>5, NumPrefix
<1>7. CASE events = <<>>
  <2>1. toPage' = toPage
    BY <1>1, <1>7, Appended
  <2>2. EndsOK'
    BY <1>1, <1>3, <2>1, InEmpty DEF EndsOK, Ends
  <2>3. NumberedOK'
    BY <1>1, <1>4, <1>6, <2>1 DEF NumberedOK
  <2> QED  BY <1>1, <1>2, <2>1, <2>2, <2>3
<1>8. ASSUME NEW m \in Messages, Last(events, m)
      PROVE  /\ toPage' \in Seq(Messages) /\ EndsOK' /\ NumberedOK'
             /\ KindsIn(toPage', {"chunk", "done", "error", "cancelled"})
  <2>1. /\ events = <<m>> /\ m.kind \in {"error", "cancelled", "done"}
        /\ m.kind = "done" => toContent # <<>> /\ m = Head(toContent)
    BY <1>8 DEF Last
  <2>2. toPage' = Append(toPage, m) /\ toPage' \in Seq(Messages)
    BY <1>1, <2>1, Appended
  <2>3. In(toPage') = In(toPage) \cup {m}
    BY <1>1, <2>2, InAppend
  <2>4. m.kind = "done" => m \in In(toContent)
    BY <1>1, <2>1, InTail
  <2>5. EndsOK'
    BY <1>1, <1>3, <2>1, <2>3, <2>4, InEmpty DEF EndsOK, Ends
  <2>6. KindsIn(toPage', {"chunk", "done", "error", "cancelled"})
    BY <1>2, <2>1, <2>3 DEF KindsIn
  <2>7. NumberedOK'
    <3> SUFFICES ASSUME page.open, ~page.complete
                 PROVE  Numbered(toPage', Following(page))
      BY <1>1, <1>4, <2>2 DEF NumberedOK
    <3>1. /\ Numbered(toPage, Following(page))
          /\ AllChunks(toPage) /\ m.kind \in {"chunk", "done"} => m.n = Following(page) + Len(toPage)
      BY <1>6, <2>1
    <3> QED  BY <1>1, <2>2, <3>1, NumAppend
  <2> QED  BY <2>2, <2>5, <2>6, <2>7
<1> QED  BY <1>7, <1>8

\* The port is closed, and nothing of the page but its messages changes.
LEMMA ClosesKeeps ==
    ASSUME StreamInv, NEW events, Closes(events), PagesOK', page' \in Pages,
           page'.open = page.open /\ page'.complete = page.complete
           /\ page'.reader = page.reader /\ page'.got = page.got,
           ~AwaitsStart(page') /\ page.reader # "idle",
           Following(page') = Following(page), HasDone(page') <=> HasDone(page),
           \A m : DonesOK(page', m) <=> DonesOK(page, m),
           events = <<>> \/ \E m \in Messages : Last(events, m)
    PROVE  StreamInv'
<1> USE DEF StreamInv
<1>1. /\ toPage' \in Seq(Messages) /\ EndsOK' /\ NumberedOK'
      /\ KindsIn(toPage', {"chunk", "done", "error", "cancelled"})
  BY ClosesPipe
<1>2. Told' /\ toWorker' \in Seq({"start", "cancel", "bye"})
      /\ (toWorker # <<>> => toWorker' # <<>> /\ toWorker'[1] = toWorker[1])
  BY ClosesTells
<1>3. /\ route' = "live" /\ port' = "closed" /\ toContent' = <<>> /\ worker' = worker
      /\ route = "live" /\ port = "open" /\ In(toContent') = {} /\ toContent' \in Seq(Messages)
  BY InEmpty, EmptyIs DEF Closes, Cleanup
<1>4. Typed'
  BY <1>1, <1>2, <1>3 DEF Typed
<1>5. DonesMade'
  BY <1>3 DEF DonesMade
<1>6. RoutesOK'
  BY <1>1, <1>3 DEF RoutesOK, KindsIn
<1>7. UnstartedOK'
  BY DEF UnstartedOK
<1>8. StartOK'
  BY <1>2, <1>3 DEF StartOK
<1>9. StopOK'
  BY <1>2, <1>3 DEF StopOK
<1> QED  BY <1>1, <1>4, <1>5, <1>6, <1>7, <1>8, <1>9

\* A cancellation is relayed, or answered when there is no port.
LEMMA RelayCancelKeeps ==
    ASSUME StreamInv, RelayCancel
    PROVE  StreamInv'
<1>1. /\ page.out # <<>> /\ Head(page.out) = "cancel" /\ page' = [page EXCEPT !.out = Tail(@)]
      /\ UNCHANGED <<route, worker>>
      /\ IF port # "open"
         THEN /\ toPage' = Append(toPage, Event("cancelled", 0))
              /\ UNCHANGED <<port, toWorker, toContent>>
         ELSE IF worker.at = "dead"
         THEN Cleanup(<<Event("error", 0)>>) /\ toContent' = <<>>
         ELSE toWorker' = Append(toWorker, "cancel") /\ UNCHANGED <<port, toPage, toContent>>
  BY DEF RelayCancel
<1>2. /\ page' \in Pages /\ PageOK(page') /\ ~AwaitsStart(page')
      /\ page'.open = page.open /\ page'.complete = page.complete
      /\ page'.reader = page.reader /\ page'.got = page.got
      /\ page.reader # "idle" /\ PagesOK'
      /\ Following(page') = Following(page) /\ (HasDone(page') <=> HasDone(page))
      /\ \A m : DonesOK(page', m) <=> DonesOK(page, m)
  BY <1>1, OutStep
<1> USE DEF StreamInv
<1>3. UnstartedOK'
  BY <1>2 DEF UnstartedOK
<1>4. DonesMade'
  BY <1>1, <1>2 DEF DonesMade
<1>5. /\ toPage \in Seq(Messages) /\ toContent \in Seq(Messages) /\ Following(page) \in Nat
      /\ toWorker \in Seq({"start", "cancel", "bye"})
      /\ route \in {"none", "live", "buffered"} /\ port \in {"none", "open", "closed"}
  BY TypesAre DEF Typed
<1>6. CASE port # "open"
  <2> DEFINE m == Event("cancelled", 0)
  <2>1. m \in Messages /\ m.kind = "cancelled"
    BY StreamRelayAssumption DEF Messages, Kinds, Event
  <2>2. toPage' = Append(toPage, m) /\ UNCHANGED <<port, toWorker, toContent>>
    BY <1>1, <1>6
  <2> HIDE DEF m
  <2>3. In(toPage') = In(toPage) \cup {m} /\ toPage' \in Seq(Messages)
    BY <1>5, <2>1, <2>2, InAppend, Appended
  <2>4. Typed'
    BY <1>1, <1>2, <2>2, <2>3 DEF Typed
  <2>5. EndsOK'
    BY <1>1, <2>1, <2>2, <2>3 DEF EndsOK, Ends
  <2>6. route = "live" => port = "closed" /\ toContent = <<>>
    BY <1>5, <1>6 DEF RoutesOK
  <2>7. NumberedOK'
    <3> SUFFICES ASSUME route = "live", page.open, ~page.complete
                 PROVE  Numbered(Way', Following(page))
      BY <1>1, <1>2, <1>6, <2>2 DEF NumberedOK
    <3>1. Way = toPage /\ Way' = toPage'
      BY <1>5, <2>2, <2>3, <2>6, WayIs DEF Way
    <3>2. Numbered(toPage, Following(page))
      BY <3>1 DEF NumberedOK
    <3> QED  BY <1>5, <2>1, <2>2, <3>1, <3>2, NumAppend
  <2>8. RoutesOK'
    BY <1>1, <1>2, <2>1, <2>2, <2>3 DEF RoutesOK, KindsIn
  <2>9. StartOK'
    BY <1>1, <2>2 DEF StartOK
  <2>10. StopOK'
    <3>1. Told' <=> Told
      BY <1>1, <2>2 DEF Told
    <3>2. route = "live" => Told
      BY <2>6 DEF StopOK
    <3> QED  BY <1>1, <1>2, <1>5, <2>2, <3>1, <3>2 DEF StopOK
  <2> QED  BY <1>2, <1>3, <1>4, <2>4, <2>5, <2>7, <2>8, <2>9, <2>10
<1>7. port = "open" => route = "live"
  BY <1>5 DEF RoutesOK
<1>8. CASE port = "open" /\ worker.at = "dead"
  <2> DEFINE m == Event("error", 0)
  <2>1. m \in Messages /\ m.kind = "error"
    BY StreamRelayAssumption DEF Messages, Kinds, Event
  <2>2. Closes(<<m>>)
    BY <1>1, <1>7, <1>8 DEF Closes
  <2> HIDE DEF m
  <2>3. \E x \in Messages : Last(<<m>>, x)
    BY <2>1 DEF Last
  <2> HIDE DEF StreamInv
  <2> QED  BY <1>2, <2>2, <2>3, ClosesKeeps
<1>9. CASE port = "open" /\ worker.at # "dead"
  <2> DEFINE c == "cancel"
             S == {"start", "cancel", "bye"}
  <2>1. toWorker' = Append(toWorker, c) /\ UNCHANGED <<port, toPage, toContent>>
    BY <1>1, <1>9
  <2>2. toWorker \in Seq(S) /\ c \in S
    BY <1>5
  <2> HIDE DEF c, S
  <2>3. In(toWorker') = In(toWorker) \cup {c} /\ toWorker' \in Seq(S)
    BY <2>1, <2>2, InAppend, Appended
  <2>4. toWorker # <<>> => toWorker' # <<>> /\ toWorker'[1] = toWorker[1]
    BY <2>1, <2>2
  <2>5. Told'
    BY <2>3 DEF Told, c
  <2>6. Typed'
    BY <1>1, <1>2, <2>1, <2>3 DEF Typed, S
  <2>7. EndsOK'
    BY <1>1, <2>1 DEF EndsOK, Ends
  <2>8. NumberedOK'
    BY <1>1, <1>2, <2>1 DEF NumberedOK, Way
  <2>9. RoutesOK'
    BY <1>1, <1>2, <1>7, <1>9, <2>1 DEF RoutesOK, KindsIn
  <2>10. StartOK'
    BY <1>1, <2>4 DEF StartOK
  <2>11. StopOK'
    BY <1>1, <2>1, <2>5 DEF StopOK
  <2> QED  BY <1>2, <1>3, <1>4, <2>6, <2>7, <2>8, <2>9, <2>10, <2>11
<1> QED  BY <1>6, <1>8, <1>9

\* A message of the worker, or the end of its port.
LEMMA RelayEventKeeps ==
    ASSUME StreamInv, RelayEvent
    PROVE  StreamInv'
<1> DEFINE e == Head(toContent)
<1> USE DEF StreamInv
<1>1. /\ toContent # <<>> /\ toContent \in Seq(Messages) /\ toPage \in Seq(Messages)
      /\ UNCHANGED <<page, route, worker>> /\ PagesOK' /\ page' \in Pages
      /\ route \in {"none", "live", "buffered"} /\ port \in {"none", "open", "closed"}
      /\ IF e.kind \in {"chunk", "whole", "failed"}
         THEN /\ toPage' = Append(toPage, e) /\ toContent' = Tail(toContent)
              /\ UNCHANGED <<port, toWorker>>
         ELSE /\ Cleanup(<<IF e.kind = "bye" THEN Event("error", 0) ELSE e>>)
              /\ toContent' = <<>>
  BY DEF RelayEvent, Typed, PagesOK
<1>2. /\ In(toContent) = {e} \cup In(Tail(toContent))
      /\ e \in Messages
      /\ Tail(toContent) \in Seq(Messages)
  BY <1>1, InTail, Rest
<1>3. e \in In(toContent) /\ e = Head(toContent)
  BY <1>2
<1>4. route # "none" /\ port # "closed"
  BY <1>1 DEF RoutesOK
<1>5. ~AwaitsStart(page) /\ page.reader # "idle"
  BY <1>4 DEF UnstartedOK
<1> HIDE DEF e
<1>6. CASE e.kind \in {"chunk", "whole", "failed"}
  <2>1. /\ toPage' = Append(toPage, e)
        /\ toContent' = Tail(toContent)
        /\ UNCHANGED <<port, toWorker>>
    BY <1>1, <1>6
  <2>2. /\ In(toPage') = In(toPage) \cup {e} /\ toPage' \in Seq(Messages)
        /\ In(toContent) = {e} \cup In(toContent') /\ toContent' \in Seq(Messages)
    BY <1>1, <1>2, <2>1, InAppend, Appended
  <2>3. Way' = Way
    BY <1>1, <1>3, <2>1, WayIs DEF Way
  <2>4. Typed'
    BY <1>1, <2>1, <2>2 DEF Typed
  <2>5. DonesMade'
    BY <1>1 DEF DonesMade
  <2>6. EndsOK'
    BY <1>1, <2>2 DEF EndsOK, Ends
  <2>7. NumberedOK'
    BY <1>1, <2>1, <2>3 DEF NumberedOK
  <2>8. RoutesOK'
    BY <1>1, <1>4, <1>6, <2>1, <2>2 DEF RoutesOK, KindsIn
  <2>9. UnstartedOK'
    BY <1>1, <1>5 DEF UnstartedOK
  <2>10. StartOK'
    BY <1>1, <2>1 DEF StartOK
  <2>11. StopOK'
    <3>1. Told' <=> Told
      BY <1>1, <2>1 DEF Told
    <3>2. route = "live" => e.kind = "chunk"
      BY <1>3, <1>6 DEF RoutesOK, KindsIn
    <3> QED  BY <1>1, <2>1, <2>2, <3>1, <3>2 DEF StopOK
  <2> QED  BY <1>1, <2>4, <2>5, <2>6, <2>7, <2>8, <2>9, <2>10, <2>11
<1>7. CASE e.kind \notin {"chunk", "whole", "failed"}
  <2> DEFINE m == IF e.kind = "bye" THEN Event("error", 0) ELSE e
  <2>1. route = "live"
    BY <1>1, <1>3, <1>4, <1>7 DEF RoutesOK, KindsIn
  <2>2. port = "open" /\ e.kind \in {"done", "error", "cancelled", "bye"}
    BY <1>1, <1>3, <1>4, <1>7, <2>1 DEF RoutesOK, KindsIn
  <2>3. /\ m \in Messages /\ m.kind \in {"error", "cancelled", "done"}
        /\ m.kind = "done" => m = Head(toContent)
    BY <1>2, <1>3, <2>2, StreamRelayAssumption DEF Messages, Kinds, Event
  <2>4. Closes(<<m>>)
    BY <1>1, <1>7, <2>1, <2>2 DEF Closes
  <2> HIDE DEF m
  <2>5. \E x \in Messages : Last(<<m>>, x)
    BY <1>1, <2>3 DEF Last
  <2> HIDE DEF StreamInv
  <2> QED  BY <1>1, <1>5, <2>4, <2>5, ClosesKeeps
<1> QED  BY <1>6, <1>7

\* The user disconnects the app.
LEMMA AppDisconnectedKeeps ==
    ASSUME StreamInv, AppDisconnected
    PROVE  StreamInv'
<1>1. UNCHANGED <<page, route, worker>> /\ PagesOK' /\ page' \in Pages
  BY DEF StreamInv, AppDisconnected, Typed, PagesOK
<1>2. route = "live" /\ port = "open"
  BY DEF StreamInv, AppDisconnected, RoutesOK, Typed
<1>3. ~AwaitsStart(page) /\ page.reader # "idle"
  BY <1>2 DEF StreamInv, UnstartedOK
<1>4. Closes(<<>>)
  BY <1>1, <1>2 DEF AppDisconnected, Closes
<1> QED  BY <1>1, <1>3, <1>4, ClosesKeeps

---------------------------------------------------------------------------
(* The service worker *)

\* A step of the worker, apart from what it posts.
WorkerMoves ==
    /\ UNCHANGED <<page, port, route, toPage>> /\ route # "none"
    /\ worker' \in Workers /\ toWorker' \in Seq({"start", "cancel", "bye"})
    /\ In(toWorker') \subseteq In(toWorker)
    /\ worker.at \in {"gone", "dead"} => worker'.at = worker.at /\ worker'.made = worker.made
    /\ Told => Told'
    /\ StartOK'

\* Nothing is posted, or into a closed port.
Silent ==
    /\ WorkerMoves /\ toContent' = toContent
    /\ worker'.made = worker.made \/ route = "buffered" \/ port # "open"

Posts(m) ==
    /\ WorkerMoves /\ toContent' = Append(toContent, m) /\ m \in Messages
    /\ route = "live" => port = "open" /\ m.kind \in {"chunk", "done", "error", "cancelled", "bye"}
    /\ route = "buffered" => m.kind \in {"whole", "failed"}
    /\ m.kind \in {"done", "whole"} => worker'.at = "gone" /\ m.n = worker'.made + 1
    /\ m.kind = "chunk" => worker'.made = worker.made + 1 /\ m.n = worker'.made
    /\ m.kind # "chunk" => worker'.at \in {"gone", "dead"} /\ worker'.made = worker.made

\* It posts nothing.
LEMMA SilentKeeps ==
    ASSUME StreamInv, Silent
    PROVE  StreamInv'
<1> USE DEF StreamInv
<1>1. /\ UNCHANGED <<page, port, route, toPage, toContent>> /\ route # "none"
      /\ worker' \in Workers /\ toWorker' \in Seq({"start", "cancel", "bye"})
      /\ In(toWorker') \subseteq In(toWorker)
      /\ worker.at \in {"gone", "dead"} => worker'.at = worker.at /\ worker'.made = worker.made
      /\ Told => Told'
      /\ StartOK'
      /\ worker'.made = worker.made \/ route = "buffered" \/ port # "open"
  BY DEF Silent, WorkerMoves
<1>2. Typed'
  BY <1>1 DEF Typed
<1>3. PagesOK'
  BY <1>1 DEF PagesOK
<1>4. DonesMade'
  <2>1. CASE HasDone(page)
    BY <1>1, <2>1 DEF DonesMade
  <2>2. CASE ~HasDone(page)
    BY <1>1, <2>2 DEF DonesMade, DonesOK, HasDone
  <2> QED  BY <2>1, <2>2
<1>5. EndsOK'
  BY <1>1 DEF EndsOK, Ends
<1>6. NumberedOK'
  BY <1>1 DEF NumberedOK, Way
<1>7. RoutesOK'
  BY <1>1 DEF RoutesOK
<1>8. UnstartedOK'
  BY <1>1 DEF UnstartedOK
<1>9. StopOK'
  BY <1>1 DEF StopOK
<1> QED  BY <1>1, <1>2, <1>3, <1>4, <1>5, <1>6, <1>7, <1>8, <1>9

\* The worker posts m.
LEMMA PostsKeeps ==
    ASSUME StreamInv, NEW m, Posts(m)
    PROVE  StreamInv'
<1> USE DEF StreamInv
<1>1. /\ UNCHANGED <<page, port, route, toPage>> /\ route # "none"
      /\ worker' \in Workers /\ toWorker' \in Seq({"start", "cancel", "bye"})
      /\ In(toWorker') \subseteq In(toWorker)
      /\ worker.at \in {"gone", "dead"} => worker'.at = worker.at /\ worker'.made = worker.made
      /\ Told => Told'
      /\ StartOK'
      /\ toContent' = Append(toContent, m) /\ m \in Messages
      /\ route = "live" => port = "open" /\ m.kind \in {"chunk", "done", "error", "cancelled", "bye"}
      /\ route = "buffered" => m.kind \in {"whole", "failed"}
      /\ m.kind \in {"done", "whole"} => worker'.at = "gone" /\ m.n = worker'.made + 1
      /\ m.kind = "chunk" => worker'.made = worker.made + 1 /\ m.n = worker'.made
      /\ m.kind # "chunk" => worker'.at \in {"gone", "dead"} /\ worker'.made = worker.made
  BY DEF Posts, WorkerMoves
<1>2. /\ toPage \in Seq(Messages) /\ toContent \in Seq(Messages) /\ Following(page) \in Nat
      /\ Way \in Seq(Messages) /\ route \in {"none", "live", "buffered"} /\ worker.made \in Nat
  BY TypesAre DEF Typed
<1>3. In(toContent') = In(toContent) \cup {m} /\ toContent' \in Seq(Messages)
  BY <1>1, <1>2, InAppend, Appended
<1>4. Typed'
  BY <1>1, <1>3 DEF Typed
<1>5. PagesOK'
  BY <1>1 DEF PagesOK
<1>6. DonesMade'
  <2>1. CASE HasDone(page)
    BY <1>1, <2>1 DEF DonesMade
  <2>2. CASE ~HasDone(page)
    BY <1>1, <2>2 DEF DonesMade, DonesOK, HasDone
  <2> QED  BY <2>1, <2>2
<1>7. EndsOK'
  BY <1>1, <1>3 DEF EndsOK, Ends
<1>8. NumberedOK'
  <2> SUFFICES ASSUME route = "live", page.open, ~page.complete
               PROVE  /\ Numbered(Way', Following(page))
                      /\ AllChunks(Way') => worker'.made + 1 = Following(page) + Len(Way')
    BY <1>1 DEF NumberedOK
  <2>1. /\ Numbered(Way, Following(page))
        /\ AllChunks(Way) => worker.made + 1 = Following(page) + Len(Way)
    BY <1>1 DEF NumberedOK
  <2>2. Way' = Append(Way, m)
    BY <1>1, <1>2, WayIs DEF Way
  <2>3. Len(Append(Way, m)) = Len(Way) + 1 /\ Len(Way) \in Nat
    BY <1>1, <1>2, Appended
  <2>4. AllChunks(Way) /\ m.kind \in {"chunk", "done"} => m.n = Following(page) + Len(Way)
    BY <1>1, <1>2, <2>1, <2>3
  <2>5. /\ Numbered(Append(Way, m), Following(page))
        /\ AllChunks(Append(Way, m)) => AllChunks(Way) /\ m.kind = "chunk"
    BY <1>1, <1>2, <2>1, <2>4, NumAppend
  <2> HIDE DEF StreamInv
  <2> QED  BY <1>1, <1>2, <2>1, <2>2, <2>3, <2>5
<1>9. RoutesOK'
  BY <1>1, <1>2, <1>3 DEF RoutesOK, KindsIn
<1>10. UnstartedOK'
  BY <1>1 DEF UnstartedOK
<1>11. StopOK'
  BY <1>1, <1>3 DEF StopOK
<1> QED  BY <1>1, <1>4, <1>5, <1>6, <1>7, <1>8, <1>9, <1>10, <1>11

\* The request is over, with a last message.
LEMMA EndPosts ==
    ASSUME StreamInv, NEW kind \in {"error", "cancelled", "done"}, NEW n,
           n = IF kind = "done" THEN worker.made + 1 ELSE 0,
           worker.at \in Working, End(kind, n), UNCHANGED <<page, port, route, toWorker, toPage>>
    PROVE  StreamInv'
<1>1. /\ worker \in Workers /\ worker.made \in 0..MaxChunks /\ worker.made \in Nat
      /\ toWorker \in Seq({"start", "cancel", "bye"})
      /\ route \in {"none", "live", "buffered"}
  BY TypesAre DEF StreamInv, Typed
<1>2. worker.at \notin {"none", "gone", "dead"}
  BY DEF Working
<1>3. route # "none"
  BY <1>2 DEF StreamInv, RoutesOK
<1>4. worker' = [worker EXCEPT !.at = "gone"]
  BY DEF End
<1>5. worker' \in Workers /\ worker'.at = "gone" /\ worker'.made = worker.made
  BY <1>1, <1>4 DEF Workers
<1>6. WorkerMoves
  BY <1>1, <1>2, <1>3, <1>5 DEF WorkerMoves, Told, StartOK
<1>7. n \in 0..(MaxChunks + 1) /\ (kind = "done" => n # 0)
  BY <1>1, StreamRelayAssumption
<1> HIDE DEF End
<1>8. CASE route = "buffered"
  <2> DEFINE k == IF kind = "done" THEN "whole" ELSE "failed"
             m == Event(k, n)
  <2>1. m \in Messages /\ m.kind = k /\ m.n = n
    BY <1>7 DEF Messages, Kinds, Event
  <2>2. toContent' = Append(toContent, m)
    BY <1>8 DEF End, Post
  <2> HIDE DEF m
  <2>3. Posts(m)
    BY <1>5, <1>6, <1>8, <2>1, <2>2 DEF Posts
  <2> QED  BY <2>3, PostsKeeps
<1>9. CASE route = "live" /\ port # "open"
  <2>1. toContent' = toContent
    BY <1>9 DEF End, Post
  <2>2. Silent
    BY <1>6, <1>9, <2>1 DEF Silent
  <2> QED  BY <2>2, SilentKeeps
<1>10. CASE route = "live" /\ port = "open"
  <2> DEFINE m == Event(kind, n)
  <2>1. m \in Messages /\ m.kind = kind /\ m.n = n
    BY <1>7 DEF Messages, Kinds, Event
  <2>2. toContent' = Append(toContent, m)
    BY <1>10 DEF End, Post
  <2> HIDE DEF m
  <2>3. Posts(m)
    BY <1>5, <1>6, <1>10, <2>1, <2>2 DEF Posts
  <2> QED  BY <2>3, PostsKeeps
<1> QED  BY <1>1, <1>3, <1>8, <1>9, <1>10

\* A step of the worker that posts nothing.
LEMMA QuietKeeps ==
    ASSUME StreamInv, UNCHANGED <<page, port, route, toPage, toContent>>, route # "none",
           worker' \in Workers, toWorker' \in Seq({"start", "cancel", "bye"}),
           In(toWorker') \subseteq In(toWorker),
           worker.at \in {"gone", "dead"} => worker'.at = worker.at, worker'.made = worker.made,
           Told => Told', worker'.at # "none"
    PROVE  StreamInv'
<1>1. WorkerMoves
  BY DEF WorkerMoves, StartOK
<1>2. Silent
  BY <1>1 DEF Silent
<1> QED  BY <1>2, SilentKeeps

\* The worker gets a message.
LEMMA WorkerReceivesKeeps ==
    ASSUME StreamInv, WorkerReceives
    PROVE  StreamInv'
<1> DEFINE w == Tail(toWorker)
           h == Head(toWorker)
           S == {"start", "cancel", "bye"}
<1>1. /\ toWorker # <<>> /\ toWorker \in Seq(S) /\ toWorker' = w
      /\ UNCHANGED <<page, port, route, toPage>>
      /\ worker \in Workers /\ route \in {"none", "live", "buffered"}
  BY DEF StreamInv, Typed, WorkerReceives, WorkerStarts, WorkerBye, WorkerCancel
<1>2. In(toWorker) = {h} \cup In(w) /\ h = toWorker[1] /\ w \in Seq(S)
  BY <1>1, InTail, Rest
<1>3. route # "none"
  BY <1>1 DEF StreamInv, RoutesOK
<1>4. worker.at = "none" => h = "start"
  BY <1>2, <1>3 DEF StreamInv, StartOK
<1> HIDE DEF w, h
<1>5. CASE WorkerStarts
  <2>1. h = "start" /\ worker.at = "none" /\ worker' = [worker EXCEPT !.at = "setup"]
        /\ UNCHANGED toContent
    BY <1>5 DEF WorkerStarts, h
  <2>2. worker' \in Workers /\ worker'.at = "setup" /\ worker'.made = worker.made
        /\ worker'.aborted = worker.aborted
    BY <1>1, <2>1 DEF Workers, Working
  <2>3. Told => Told'
    BY <1>1, <1>2, <2>1, <2>2 DEF Told
  <2> QED  BY <1>1, <1>2, <1>3, <2>1, <2>2, <2>3, QuietKeeps
<1>6. CASE WorkerBye
  <2> DEFINE b == worker.at \in Working
  <2>1. h = "bye" /\ worker' = [worker EXCEPT !.aborted = b] /\ UNCHANGED toContent
    BY <1>6 DEF WorkerBye, h
  <2>2. b \in BOOLEAN
    OBVIOUS
  <2>3. worker' \in Workers /\ worker'.at = worker.at /\ worker'.made = worker.made
        /\ worker'.aborted = b
    <3> HIDE DEF b
    <3> QED  BY <1>1, <2>1, <2>2 DEF Workers
  <2>4. worker.at # "none"
    BY <1>4, <2>1
  <2>5. worker.at \in Working \/ worker.at \in {"gone", "dead"}
    BY <1>1, <2>4 DEF Workers
  <2>6. Told'
    BY <2>3, <2>5 DEF Told
  <2> QED  BY <1>1, <1>2, <1>3, <2>1, <2>3, <2>4, <2>6, QuietKeeps
<1>7. CASE WorkerCancel
  <2>1. /\ h = "cancel"
        /\ IF worker.at \in Working
           THEN worker' = [worker EXCEPT !.aborted = TRUE] /\ UNCHANGED toContent
           ELSE IF worker.at = "gone"
           THEN Post("cancelled", 0) /\ UNCHANGED worker
           ELSE UNCHANGED <<worker, toContent>>
    BY <1>7 DEF WorkerCancel, h
  <2>2. worker.at # "none" /\ worker.at \in Working \cup {"gone", "dead"}
    BY <1>1, <1>4, <2>1 DEF Workers
  <2>3. CASE worker.at \in Working
    <3>1. worker' \in Workers /\ worker'.at = worker.at /\ worker'.made = worker.made
          /\ worker'.aborted = TRUE /\ UNCHANGED toContent
      BY <1>1, <2>1, <2>3 DEF Workers
    <3>2. Told'
      BY <3>1 DEF Told
    <3> QED  BY <1>1, <1>2, <1>3, <2>2, <3>1, <3>2, QuietKeeps
  <2>4. CASE worker.at = "dead"
    <3>1. UNCHANGED <<worker, toContent>>
      BY <2>1, <2>4 DEF Working
    <3>2. Told'
      BY <2>4, <3>1 DEF Told
    <3> QED  BY <1>1, <1>2, <1>3, <2>2, <3>1, <3>2, QuietKeeps
  <2>5. CASE worker.at = "gone"
    <3>1. Post("cancelled", 0) /\ UNCHANGED worker
      BY <2>1, <2>5 DEF Working
    <3>2. Told'
      BY <2>5, <3>1 DEF Told
    <3>3. WorkerMoves
      BY <1>1, <1>2, <1>3, <2>5, <3>1, <3>2 DEF WorkerMoves, StartOK
    <3>4. route = "live"
      BY <1>1, <1>2, <1>3, <2>1 DEF StreamInv, RoutesOK
    <3>5. CASE port # "open"
      <4>1. toContent' = toContent
        BY <3>1, <3>4, <3>5 DEF Post
      <4>2. Silent
        BY <3>1, <3>3, <4>1 DEF Silent
      <4> QED  BY <4>2, SilentKeeps
    <3>6. CASE port = "open"
      <4> DEFINE m == Event("cancelled", 0)
      <4>1. m \in Messages /\ m.kind = "cancelled"
        BY StreamRelayAssumption DEF Messages, Kinds, Event
      <4>2. toContent' = Append(toContent, m)
        BY <3>1, <3>6 DEF Post
      <4> HIDE DEF m
      <4>3. Posts(m)
        BY <2>5, <3>1, <3>3, <3>4, <3>6, <4>1, <4>2 DEF Posts
      <4> QED  BY <4>3, PostsKeeps
    <3> QED  BY <3>5, <3>6
  <2> QED  BY <2>2, <2>3, <2>4, <2>5
<1> QED  BY <1>5, <1>6, <1>7 DEF WorkerReceives

\* The worker goes on with the request.
LEMMA ProviderKeeps ==
    ASSUME StreamInv, Provider
    PROVE  StreamInv'
<1>1. /\ worker \in Workers /\ worker.made \in 0..MaxChunks /\ worker.made \in Nat
      /\ toWorker \in Seq({"start", "cancel", "bye"})
      /\ route \in {"none", "live", "buffered"} /\ worker.at \in Working
      /\ UNCHANGED <<page, port, route, toWorker, toPage>>
  BY TypesAre DEF StreamInv, Typed, Provider, SetupEnds, Delta, ProviderEnds, FlushEnds, Working
<1>2. worker.at \notin {"none", "gone", "dead"}
  BY <1>1 DEF Working
<1>3. route # "none"
  BY <1>2 DEF StreamInv, RoutesOK
<1>4. ASSUME End("error", 0) \/ End("cancelled", 0) \/ End("done", worker.made + 1)
      PROVE  StreamInv'
  BY <1>1, <1>4, EndPosts
<1>5. ASSUME NEW at \in Working, worker' = [worker EXCEPT !.at = at], UNCHANGED toContent
      PROVE  StreamInv'
  <2>1. worker' \in Workers /\ worker'.at = at /\ worker'.made = worker.made
        /\ worker'.aborted = worker.aborted
    BY <1>1, <1>5 DEF Workers
  <2>2. Told => Told' /\ at # "none"
    BY <1>1, <1>2, <2>1 DEF Told, Working
  <2>3. at # "none"
    BY DEF Working
  <2> QED  BY <1>1, <1>2, <1>3, <1>5, <2>1, <2>2, <2>3, QuietKeeps
<1>6. CASE SetupEnds
  BY <1>4, <1>5, <1>6 DEF SetupEnds, Working
<1>7. CASE ProviderEnds
  BY <1>4, <1>5, <1>7 DEF ProviderEnds, Working
<1>8. CASE FlushEnds
  BY <1>4, <1>8 DEF FlushEnds
<1>9. CASE Delta
  <2>1. CASE worker.aborted
    BY <1>4, <1>9, <2>1 DEF Delta
  <2>2. CASE ~worker.aborted
    <3> DEFINE m == Event("chunk", worker.made + 1)
    <3>1. /\ worker.made < MaxChunks /\ worker' = [worker EXCEPT !.made = @ + 1]
          /\ IF route = "live" THEN Post("chunk", worker.made + 1) ELSE UNCHANGED toContent
      BY <1>9, <2>2 DEF Delta
    <3>2. /\ worker.made + 1 \in 0..MaxChunks
          /\ worker.made + 1 \in 0..(MaxChunks + 1)
          /\ worker.made + 1 # 0
      BY <1>1, <3>1, StreamRelayAssumption
    <3>3. worker' \in Workers /\ worker'.at = worker.at /\ worker'.made = worker.made + 1
          /\ worker'.aborted = worker.aborted
      BY <1>1, <3>1, <3>2 DEF Workers
    <3>4. WorkerMoves
      BY <1>1, <1>2, <1>3, <3>3 DEF WorkerMoves, Told, StartOK
    <3>5. m \in Messages /\ m.kind = "chunk" /\ m.n = worker.made + 1
      BY <3>2 DEF Messages, Kinds, Event
    <3>6. CASE route = "buffered"
      <4>1. Silent
        BY <3>1, <3>4, <3>6 DEF Silent
      <4> QED  BY <4>1, SilentKeeps
    <3>7. CASE route = "live" /\ port # "open"
      <4>1. Silent
        BY <3>1, <3>4, <3>7 DEF Silent, Post
      <4> QED  BY <4>1, SilentKeeps
    <3>8. CASE route = "live" /\ port = "open"
      <4>1. toContent' = Append(toContent, m)
        BY <3>1, <3>8 DEF Post
      <4> HIDE DEF m
      <4>2. Posts(m)
        BY <3>3, <3>4, <3>5, <3>8, <4>1 DEF Posts
      <4> QED  BY <4>2, PostsKeeps
    <3> QED  BY <1>1, <1>3, <3>6, <3>7, <3>8
  <2> QED  BY <2>1, <2>2
<1> QED  BY <1>6, <1>7, <1>8, <1>9 DEF Provider

\* The browser ends the worker.
LEMMA WorkerDiesKeeps ==
    ASSUME StreamInv, WorkerDies
    PROVE  StreamInv'
<1> DEFINE k == IF route = "live" THEN "bye" ELSE "failed"
           m == Event(k, 0)
<1>1. /\ worker \in Workers /\ route \in {"none", "live", "buffered"} /\ worker.at \in Working
      /\ UNCHANGED <<page, port, route, toPage>> /\ toWorker' = <<>>
      /\ worker' = [worker EXCEPT !.at = "dead"]
      /\ Post(k, 0)
  BY DEF StreamInv, Typed, WorkerDies
<1>2. worker.at \notin {"none", "gone", "dead"}
  BY <1>1 DEF Working
<1>3. route # "none"
  BY <1>2 DEF StreamInv, RoutesOK
<1>4. worker' \in Workers /\ worker'.at = "dead" /\ worker'.made = worker.made
  BY <1>1 DEF Workers
<1>5. toWorker' \in Seq({"start", "cancel", "bye"})
  BY <1>1
<1>6. WorkerMoves
  BY <1>1, <1>2, <1>3, <1>4, <1>5, InEmpty DEF WorkerMoves, Told, StartOK
<1>7. m \in Messages /\ m.kind = k
  BY StreamRelayAssumption DEF Messages, Kinds, Event
<1>8. CASE route = "live" /\ port # "open"
  <2>1. Silent
    BY <1>1, <1>4, <1>6, <1>8 DEF Silent, Post
  <2> QED  BY <2>1, SilentKeeps
<1>9. CASE ~(route = "live" /\ port # "open")
  <2>1. toContent' = Append(toContent, m)
    BY <1>1, <1>9 DEF Post
  <2> HIDE DEF m
  <2>2. Posts(m)
    BY <1>1, <1>3, <1>4, <1>6, <1>7, <1>9, <2>1 DEF Posts
  <2> QED  BY <2>2, PostsKeeps
<1> QED  BY <1>8, <1>9

---------------------------------------------------------------------------
(* The invariant holds *)

LEMMA StreamInit == RInit => StreamInv
<1> SUFFICES ASSUME RInit
             PROVE  StreamInv
  OBVIOUS
<1> DEFINE none == <<>>
<1>1. /\ none \in Seq(Entries) /\ none \in Seq({"start", "cancel"}) /\ Len(none) = 0
      /\ none \in Seq(Messages) /\ none \in Seq({"start", "cancel", "bye"}) /\ In(none) = {}
  BY EmptyIs, InEmpty
<1>2. none = <<>>
  OBVIOUS
<1>3. /\ page = [open |-> FALSE, complete |-> FALSE, queue |-> none,
                 reader |-> "idle", returning |-> FALSE, aborted |-> FALSE,
                 got |-> 0, outcome |-> "none", out |-> none]
      /\ port = "none" /\ route = "none"
      /\ worker = [at |-> "none", aborted |-> FALSE, made |-> 0]
      /\ toWorker = none /\ toContent = none /\ toPage = none
  BY DEF RInit
<1> HIDE DEF none
<1>4. /\ page.open = FALSE /\ page.complete = FALSE /\ page.queue = none /\ page.reader = "idle"
      /\ page.got = 0 /\ page.outcome = "none" /\ page.out = none
      /\ worker.at = "none" /\ worker.made = 0
  BY <1>3
<1>5. Typed
  BY <1>1, <1>3, StreamRelayAssumption DEF Typed, Pages, Readers, Outcomes, Workers
<1>6. PagesOK
  BY <1>1, <1>2, <1>4, StreamRelayAssumption DEF PagesOK, PageOK, ValuesUpTo, StartFirst
<1>7. DonesMade
  BY <1>1, <1>4 DEF DonesMade, DonesOK, HasDone
<1>8. EndsOK /\ RoutesOK
  BY <1>1, <1>2, <1>3, <1>4 DEF EndsOK, Ends, RoutesOK, KindsIn
<1>9. NumberedOK /\ UnstartedOK /\ StartOK /\ StopOK
  BY <1>2, <1>3, <1>4 DEF NumberedOK, UnstartedOK, StartOK, StopOK
<1> QED  BY <1>5, <1>6, <1>7, <1>8, <1>9 DEF StreamInv

LEMMA StreamStep == StreamInv /\ [RNext]_rvars => StreamInv'
<1> SUFFICES ASSUME StreamInv, [RNext]_rvars
             PROVE  StreamInv'
  OBVIOUS
<1>1. CASE Start
  BY <1>1, StartKeeps
<1>2. CASE Ask \/ Leave \/ SdkTimeout \/ TimerFires \/ Abort
  BY <1>2, LocalSteps, LocalKeeps
<1>3. CASE PageReceives
  BY <1>3, ReceiveKeeps
<1>4. CASE Content
  BY <1>4, RelayKeeps, RelayCancelKeeps, RelayEventKeeps DEF Content
<1>5. CASE WorkerReceives
  BY <1>5, WorkerReceivesKeeps
<1>6. CASE Provider
  BY <1>6, ProviderKeeps
<1>7. CASE AppDisconnected
  BY <1>7, AppDisconnectedKeeps
<1>8. CASE WorkerDies
  BY <1>8, WorkerDiesKeeps
<1>9. CASE UNCHANGED rvars
  BY <1>9 DEF rvars, StreamInv, Typed, PagesOK, DonesMade, EndsOK, Ends, NumberedOK, Way,
              RoutesOK, UnstartedOK, StartOK, StopOK, Told
<1> QED  BY <1>1, <1>2, <1>3, <1>4, <1>5, <1>6, <1>7, <1>8, <1>9 DEF RNext, Reader, Page

LEMMA StreamInvariant == RSpec => []StreamInv
<1> QED  BY StreamInit, StreamStep, PTL DEF RSpec

---------------------------------------------------------------------------
(* The theorems *)

\* The state keeps its shape; the page never buffers more than MaxBuffered
\* entries and the two that may end it, however many arrive (enqueueStreamEntry).
THEOREM StreamTypes == RSpec => []RTypeOK
<1>1. StreamInv => RTypeOK
  <2> SUFFICES ASSUME StreamInv
               PROVE  RTypeOK
    OBVIOUS
  <2>1. page \in Pages /\ PageOK(page) /\ worker \in Workers
        /\ port \in {"none", "open", "closed"} /\ route \in {"none", "live", "buffered"}
    BY DEF StreamInv, Typed, PagesOK
  <2>2. \A i \in DOMAIN page.queue : page.queue[i] \in Entries
    BY <2>1, PageIs
  <2>3. Len(page.queue) <= MaxBuffered + 2
    BY <2>1 DEF PageOK
  <2> QED  BY <2>1, <2>2, <2>3 DEF RTypeOK, Pages, Workers, Readers, Outcomes, Entries
<1> QED  BY <1>1, StreamInvariant, PTL

\* A loop that ends without an error received every envelope of a worker that
\* finished, for any stream and any size of the buffer (consumeLiveStreamEvent,
\* consumeBufferedStreamResponse).
THEOREM DoneIsWhole == RSpec => []DoneMeansAll
<1>1. StreamInv => DoneMeansAll
  BY DEF StreamInv, DonesMade, DonesOK, HasDone, DoneMeansAll
<1> QED  BY <1>1, StreamInvariant, PTL

\* Whatever way out of the loop the reader took, once the messages of the page
\* have arrived the worker's request is aborted.
THEOREM AbandonedAborts == RSpec => []AbandonedIsAborted
<1>1. StreamInv => AbandonedIsAborted
  <2> SUFFICES ASSUME StreamInv, page.reader = "ended", route = "live", page.out = <<>>,
                      toWorker = <<>>, worker.at \in Working
               PROVE  worker.aborted
    BY DEF AbandonedIsAborted
  <2>1. page.complete
    BY DEF StreamInv, PagesOK, PageOK
  <2>2. ~HasCancel(page) /\ In(toWorker) = {}
    BY EmptyIs, InEmpty DEF HasCancel
  <2>3. Told
    BY <2>1, <2>2 DEF StreamInv, StopOK
  <2> QED  BY <2>2, <2>3 DEF Told, Working
<1> QED  BY <1>1, StreamInvariant, PTL

LEMMA GotStep == StreamInv /\ [RNext]_rvars => (page'.got # page.got => page'.got = page.got + 1)
<1> SUFFICES ASSUME StreamInv, [RNext]_rvars
             PROVE  page'.got = page.got \/ page'.got = page.got + 1
  OBVIOUS
<1>1. CASE Start
  BY <1>1 DEF Start, StreamInv, Typed, Pages
<1>2. CASE Ask \/ Leave \/ SdkTimeout \/ TimerFires \/ Abort
  BY <1>2, LocalSteps DEF LocalMove
<1>3. CASE PageReceives
  BY <1>3, ReceiveStep DEF TakesMessage
<1>4. CASE Relay \/ RelayCancel
  <2>1. page.out # <<>> /\ page' = [page EXCEPT !.out = Tail(@)]
    BY <1>4 DEF Relay, RelayCancel
  <2> QED  BY <2>1, OutStep
<1>5. CASE UNCHANGED page
  BY <1>5
<1> QED  BY <1>1, <1>2, <1>3, <1>4, <1>5
         DEF RNext, Reader, Page, Content, RelayEvent, WorkerReceives, WorkerStarts, WorkerBye,
             WorkerCancel,
             Provider, SetupEnds, Delta, ProviderEnds, FlushEnds, AppDisconnected, WorkerDies, rvars

\* The reader gets the chunks one after the other, whatever was buffered,
\* dropped or cancelled on the way.
THEOREM ChunksComeInOrder == RSpec => ChunksInOrder
<1>1. StreamInv /\ [RNext]_rvars => [page'.got # page.got => page'.got = page.got + 1]_rvars
  BY GotStep
<1> QED  BY <1>1, StreamInvariant, PTL DEF RSpec, ChunksInOrder
=============================================================================
