---------------------------- MODULE GooseProofs ----------------------------
(***************************************************************************)
(* Proofs about the GOOSE publisher and the supervision of its stream.     *)
(***************************************************************************)
EXTENDS Goose, SequenceTheorems, FiniteSetTheorems, TLAPS

----------------------------------------------------------------------------
(* What the supervision makes of a message                                 *)

Kinds == {"new", "state change", "data", "gap", "duplicate", "out of order",
          "restart", "timeout", "resumed", "configuration"}

LEMMA FrameFields ==
  ASSUME NEW f \in Frame
  PROVE  /\ f.st \in Num /\ f.sq \in Num
         /\ f.tal \in Nat /\ f.values \in Nat /\ f.control \in Nat
BY DEF Frame

LEMMA NumFields ==
  /\ NumMax \in Nat /\ NumMax > 1
  /\ \A n : n \in Num <=> n \in Nat /\ n <= NumMax
BY NumMaxAssumption DEF Num

LEMMA StreamFields ==
  ASSUME NEW s \in GooseStream
  PROVE  /\ s.known \in BOOLEAN /\ s.last \in Frame /\ s.lastSeen \in Nat
         /\ s.missed \in Nat /\ s.timedOut \in BOOLEAN
         /\ s.recent \in Seq(Num) /\ s.events \in SUBSET Kinds
BY DEF GooseStream, Kinds

\* The counters accepted last, after n.
Pushed(recent, n) ==
    IF Len(recent) < Window THEN Append(recent, n) ELSE Append(Tail(recent), n)

(***************************************************************************)
(* An event changes nothing else.                                          *)
(***************************************************************************)
LEMMA Emits ==
  ASSUME NEW s \in GooseStream, NEW kind \in Kinds
  PROVE  LET r == Emit(s, kind)
         IN  /\ r \in GooseStream
             /\ r.events = s.events \cup {kind}
             /\ r.known = s.known /\ r.last = s.last /\ r.lastSeen = s.lastSeen
             /\ r.missed = s.missed /\ r.timedOut = s.timedOut
             /\ r.recent = s.recent
BY DEF Emit, GooseStream, Kinds

LEMMA EmitsIf ==
  ASSUME NEW s \in GooseStream, NEW kind \in Kinds, NEW condition \in BOOLEAN
  PROVE  LET r == EmitIf(s, condition, kind)
         IN  /\ r \in GooseStream
             /\ r.events = IF condition THEN s.events \cup {kind} ELSE s.events
             /\ r.known = s.known /\ r.last = s.last /\ r.lastSeen = s.lastSeen
             /\ r.missed = s.missed /\ r.timedOut = s.timedOut
             /\ r.recent = s.recent
BY Emits DEF EmitIf

(***************************************************************************)
(* deque(maxlen=REORDER_WINDOW) holds the counter that came last, and      *)
(* beside it only what it held.                                            *)
(***************************************************************************)
LEMMA PushedFacts ==
  ASSUME NEW recent \in Seq(Num), NEW n \in Num
  PROVE  /\ Pushed(recent, n) \in Seq(Num)
         /\ Range(Pushed(recent, n)) \subseteq Range(recent) \cup {n}
<1>1. ASSUME NEW q \in Seq(Num)
      PROVE  /\ Append(q, n) \in Seq(Num)
             /\ Range(Append(q, n)) \subseteq Range(q) \cup {n}
  BY <1>1, AppendProperties, LenProperties DEF Range
<1>2. CASE Len(recent) < Window
  BY <1>1, <1>2 DEF Pushed
<1>3. CASE ~(Len(recent) < Window)
  <2>1. recent # <<>>
    BY <1>3, WindowAssumption, EmptySeq
  <2>2. Tail(recent) \in Seq(Num) /\ Range(Tail(recent)) \subseteq Range(recent)
    BY <2>1, HeadTailProperties, LenProperties DEF Range
  <2> QED
    BY <1>1, <1>3, <2>2 DEF Pushed
<1> QED
  BY <1>2, <1>3

LEMMA Remembers ==
  ASSUME NEW s \in GooseStream, NEW n \in Num
  PROVE  LET r == Remember(s, n)
         IN  /\ r \in GooseStream
             /\ r.recent = Pushed(s.recent, n)
             /\ r.known = s.known /\ r.last = s.last /\ r.lastSeen = s.lastSeen
             /\ r.missed = s.missed /\ r.timedOut = s.timedOut
             /\ r.events = s.events
<1>1. s.recent \in Seq(Num)
  BY DEF GooseStream
<1>2. Pushed(s.recent, n) \in Seq(Num)
  BY <1>1, PushedFacts
<1>3. Remember(s, n) = [s EXCEPT !.recent = Pushed(s.recent, n)]
  BY DEF Remember, Pushed
<1> QED
  BY <1>2, <1>3 DEF GooseStream

LEMMA Accepts ==
  ASSUME NEW s \in GooseStream, NEW m \in Frame
  PROVE  LET r == Accept(s, m)
         IN  /\ r \in GooseStream
             /\ r.recent = Pushed(s.recent, m.sq)
             /\ r.last = m
             /\ r.known = s.known /\ r.lastSeen = s.lastSeen
             /\ r.missed = s.missed /\ r.timedOut = s.timedOut
             /\ r.events = s.events
<1>1. m.sq \in Num
  BY DEF Frame
<1> DEFINE t == Remember(s, m.sq)
<1>2. Accept(s, m) = [t EXCEPT !.last = m]
  BY DEF Accept
<1> HIDE DEF t
<1>3. t \in GooseStream => [t EXCEPT !.last = m] \in GooseStream
  BY DEF GooseStream
<1> QED
  BY <1>1, <1>2, <1>3, Remembers DEF GooseStream, t

(***************************************************************************)
(* _late: a counter is late or repeated.                                   *)
(***************************************************************************)
LEMMA Lates ==
  ASSUME NEW s \in GooseStream, NEW n \in Num
  PROVE  LET r == Late(s, n)
         IN  /\ r \in GooseStream
             /\ r.known = s.known /\ r.last = s.last /\ r.lastSeen = s.lastSeen
             /\ r.timedOut = s.timedOut
             /\ n \in Range(s.recent) =>
                  r.missed = s.missed /\ r.recent = s.recent
             /\ n \notin Range(s.recent) =>
                  /\ r.missed = IF s.missed = 0 THEN 0 ELSE s.missed - 1
                  /\ r.recent = Pushed(s.recent, n)
<1>1. CASE n \in Range(s.recent)
  BY <1>1, Emits DEF Late, Kinds
<1>2. CASE n \notin Range(s.recent)
  <2> DEFINE t == Emit(s, "out of order")
             u == Remember(t, n)
             missed == IF u.missed = 0 THEN 0 ELSE u.missed - 1
  <2>1. Late(s, n) = [u EXCEPT !.missed = missed]
    BY <1>2 DEF Late
  <2>2. /\ t \in GooseStream /\ t.known = s.known /\ t.last = s.last
        /\ t.lastSeen = s.lastSeen /\ t.timedOut = s.timedOut
        /\ t.missed = s.missed /\ t.recent = s.recent
    BY Emits DEF Kinds
  <2> HIDE DEF t
  <2>3. /\ u \in GooseStream /\ u.known = s.known /\ u.last = s.last
        /\ u.lastSeen = s.lastSeen /\ u.timedOut = s.timedOut
        /\ u.missed = s.missed /\ u.recent = Pushed(s.recent, n)
    BY <2>2, Remembers
  <2> HIDE DEF u
  <2>4. u.missed \in Nat /\ missed \in Nat
    BY <2>3, StreamFields
  <2>5. [u EXCEPT !.missed = missed] \in GooseStream
    BY <2>3, <2>4 DEF GooseStream
  <2> QED
    BY <1>2, <2>1, <2>3, <2>4, <2>5 DEF GooseStream
<1> QED
  BY <1>1, <1>2

\* m continues the state of last.
Continues(last, m) == m.st = last.st /\ ~IsLate(last, m)

(***************************************************************************)
(* A message of the state the stream is in, and not late.                  *)
(***************************************************************************)
LEMMA SameStates ==
  ASSUME NEW s \in GooseStream, NEW m \in Frame, Continues(s.last, m)
  PROVE  LET r == SameState(s, m)
         IN  /\ r \in GooseStream
             /\ r.known = s.known /\ r.last = m /\ r.lastSeen = s.lastSeen
             /\ r.timedOut = s.timedOut
             /\ r.recent = Pushed(s.recent, m.sq)
             /\ r.missed = IF SqNext(s.last.sq, m.sq) THEN s.missed
                           ELSE s.missed + m.sq - s.last.sq - 1
             /\ SqNext(s.last.sq, m.sq) /\ m.values = s.last.values =>
                  r.events = s.events
<1>1. /\ m.sq \in Nat /\ s.last.sq \in Nat /\ s.missed \in Nat
  BY StreamFields, FrameFields, NumFields
<1> DEFINE gap == ~SqNext(s.last.sq, m.sq)
           s1 == EmitIf(s, gap, "gap")
           missed == s1.missed + m.sq - s1.last.sq - 1
           s2 == IF gap THEN [s1 EXCEPT !.missed = missed] ELSE s1
           s3 == EmitIf(s2, m.values # s.last.values, "data")
<1>2. SameState(s, m) = Accept(s3, m)
  <2>1. [s1 EXCEPT !.missed = @ + m.sq - s.last.sq - 1]
          = [s1 EXCEPT !.missed = missed]
    BY EmitsIf DEF Kinds
  <2> QED
    BY <2>1, EmitsIf DEF SameState, Kinds
<1>3. gap \in BOOLEAN /\ (m.values # s.last.values) \in BOOLEAN
  BY DEF SqNext
<1>4. gap => m.sq > s.last.sq + 1
  BY <1>1 DEF Continues, IsLate, SqNext
<1>5. /\ s1 \in GooseStream /\ s1.known = s.known /\ s1.last = s.last
      /\ s1.lastSeen = s.lastSeen /\ s1.timedOut = s.timedOut
      /\ s1.missed = s.missed /\ s1.recent = s.recent
      /\ ~gap => s1.events = s.events
  BY <1>3, EmitsIf DEF Kinds
<1> HIDE DEF s1
<1>6. gap => missed \in Nat
  BY <1>1, <1>4, <1>5
<1>7. gap => /\ [s1 EXCEPT !.missed = missed] \in GooseStream
             /\ [s1 EXCEPT !.missed = missed].missed = missed
  BY <1>5, <1>6 DEF GooseStream
<1> HIDE DEF gap
<1>8. /\ s2 \in GooseStream /\ s2.known = s.known /\ s2.last = s.last
      /\ s2.lastSeen = s.lastSeen /\ s2.timedOut = s.timedOut
      /\ s2.missed = IF gap THEN missed ELSE s.missed
      /\ s2.recent = s.recent
      /\ ~gap => s2.events = s.events
  BY <1>5, <1>7 DEF GooseStream
<1> HIDE DEF s2
<1>9. /\ s3 \in GooseStream /\ s3.known = s.known /\ s3.last = s.last
      /\ s3.lastSeen = s.lastSeen /\ s3.timedOut = s.timedOut
      /\ s3.missed = s2.missed /\ s3.recent = s.recent
      /\ ~gap /\ m.values = s.last.values => s3.events = s.events
  BY <1>3, <1>8, EmitsIf DEF Kinds
<1> HIDE DEF s3
<1>10. missed = s.missed + m.sq - s.last.sq - 1
  BY <1>5
<1> QED
  BY <1>2, <1>8, <1>9, <1>10, Accepts DEF gap

(***************************************************************************)
(* A message of another state.                                             *)
(***************************************************************************)
LEMMA OtherStates ==
  ASSUME NEW s \in GooseStream, NEW m \in Frame
  PROVE  LET r == OtherState(s, m)
             ahead == StAhead(s.last.st, m.st)
         IN  /\ r \in GooseStream
             /\ r.known = s.known /\ r.last = m /\ r.lastSeen = s.lastSeen
             /\ r.timedOut = s.timedOut
             /\ r.recent = Pushed(<<>>, m.sq)
             /\ r.missed = IF ahead = 0 THEN s.missed ELSE s.missed + ahead - 1
             /\ ahead # 0 => r.events = s.events \cup {"state change"}
<1> DEFINE ahead == StAhead(s.last.st, m.st)
           s1 == [s EXCEPT !.recent = <<>>]
           change == Emit(s1, "state change")
           missed == change.missed + ahead - 1
           s2 == IF ahead = 0 THEN Emit(s1, "restart")
                 ELSE [change EXCEPT !.missed = missed]
<1>1. OtherState(s, m) = Accept(s2, m)
  BY DEF OtherState
<1>2. ahead \in Nat
  BY StreamFields, FrameFields, NumFields DEF StAhead
<1> HIDE DEF ahead
<1>3. <<>> \in Seq(Num)
  BY EmptySeq
<1>4. /\ s1 \in GooseStream /\ s1.known = s.known /\ s1.last = s.last
      /\ s1.lastSeen = s.lastSeen /\ s1.timedOut = s.timedOut
      /\ s1.missed = s.missed /\ s1.recent = <<>> /\ s1.events = s.events
  BY <1>3 DEF GooseStream
<1> HIDE DEF s1
<1>5. /\ change \in GooseStream /\ change.known = s.known
      /\ change.last = s.last /\ change.lastSeen = s.lastSeen
      /\ change.timedOut = s.timedOut /\ change.missed = s.missed
      /\ change.recent = <<>>
      /\ change.events = s.events \cup {"state change"}
  BY <1>4, Emits DEF Kinds
<1> HIDE DEF change
<1>6. ahead # 0 => missed \in Nat
  <2>1. change.missed \in Nat
    BY <1>5, StreamFields
  <2> QED
    BY <1>2, <2>1
<1>7. ahead # 0 => /\ [change EXCEPT !.missed = missed] \in GooseStream
                   /\ [change EXCEPT !.missed = missed].missed = missed
                   /\ [change EXCEPT !.missed = missed].recent = <<>>
  BY <1>5, <1>6 DEF GooseStream
<1>8. /\ s2 \in GooseStream /\ s2.known = s.known
      /\ s2.lastSeen = s.lastSeen /\ s2.timedOut = s.timedOut
      /\ s2.missed = IF ahead = 0 THEN s.missed ELSE missed
      /\ s2.recent = <<>>
      /\ ahead # 0 => s2.events = s.events \cup {"state change"}
  <2>1. CASE ahead = 0
    BY <2>1, <1>4, Emits DEF Kinds
  <2>2. CASE ahead # 0
    BY <2>2, <1>5, <1>7 DEF GooseStream
  <2> QED
    BY <2>1, <2>2
<1> HIDE DEF s2
<1>9. missed = s.missed + ahead - 1
  BY <1>5
<1> DEFINE s3 == Accept(s2, m)
<1>10. /\ s3 \in GooseStream /\ s3.known = s2.known /\ s3.last = m
       /\ s3.lastSeen = s2.lastSeen /\ s3.timedOut = s2.timedOut
       /\ s3.recent = Pushed(s2.recent, m.sq)
       /\ s3.missed = s2.missed /\ s3.events = s2.events
  BY <1>8, Accepts
<1>11. OtherState(s, m) = s3
  BY <1>1
<1> HIDE DEF s3, missed
<1> QED
  BY <1>8, <1>9, <1>10, <1>11 DEF ahead

(***************************************************************************)
(* Silence changes nothing but whether it has been told.                   *)
(***************************************************************************)
LEMMA Checks ==
  ASSUME NEW s \in GooseStream, NEW t \in Nat
  PROVE  LET r == Check(s, t)
         IN  /\ r \in GooseStream
             /\ r.known = s.known /\ r.last = s.last /\ r.lastSeen = s.lastSeen
             /\ r.missed = s.missed /\ r.recent = s.recent
             /\ ~Silent(s, t) => r = s
<1> DEFINE u == Emit(s, "timeout")
<1>1. Check(s, t) = IF Silent(s, t) THEN [u EXCEPT !.timedOut = TRUE] ELSE s
  BY DEF Check
<1>2. /\ u \in GooseStream /\ u.known = s.known /\ u.last = s.last
      /\ u.lastSeen = s.lastSeen /\ u.missed = s.missed /\ u.recent = s.recent
  BY Emits DEF Kinds
<1> HIDE DEF u
<1> QED
  BY <1>1, <1>2 DEF GooseStream

\* What feed() makes of the stream s at t, but for the events: r.
Follows(s, m, t, r) ==
    LET ahead == StAhead(s.last.st, m.st)
    IN  /\ r \in GooseStream
        /\ r.known = TRUE /\ r.lastSeen = t /\ r.timedOut = FALSE
        /\ ~s.known =>
             /\ r.last = m /\ r.missed = s.missed
             /\ r.recent = Pushed(s.recent, m.sq)
        /\ s.known /\ IsLate(s.last, m) =>
             /\ r.last = s.last
             /\ m.sq \in Range(s.recent) =>
                  r.missed = s.missed /\ r.recent = s.recent
             /\ m.sq \notin Range(s.recent) =>
                  /\ r.missed = IF s.missed = 0 THEN 0 ELSE s.missed - 1
                  /\ r.recent = Pushed(s.recent, m.sq)
        /\ s.known /\ Continues(s.last, m) =>
             /\ r.last = m
             /\ r.recent = Pushed(s.recent, m.sq)
             /\ r.missed = IF SqNext(s.last.sq, m.sq) THEN s.missed
                           ELSE s.missed + m.sq - s.last.sq - 1
        /\ s.known /\ m.st # s.last.st =>
             /\ r.last = m
             /\ r.recent = Pushed(<<>>, m.sq)
             /\ r.missed = IF ahead = 0 THEN s.missed
                           ELSE s.missed + ahead - 1

\* The events, when nothing but the message is to be told of.
Tells(s, m, r) ==
    /\ ~s.known => r.events = s.events \cup {"new"}
    /\ s.known /\ ~s.timedOut /\ m.control = s.last.control =>
         /\ /\ Continues(s.last, m) /\ SqNext(s.last.sq, m.sq)
            /\ m.values = s.last.values
            => r.events = s.events
         /\ m.st # s.last.st /\ StAhead(s.last.st, m.st) # 0 =>
              r.events = s.events \cup {"state change"}

(***************************************************************************)
(* feed(): the first message of a stream, one that is late or repeated,    *)
(* one that continues its state, one of another state.                     *)
(***************************************************************************)
LEMMA Feeds ==
  ASSUME NEW s \in GooseStream, NEW m \in Frame, NEW t \in Nat
  PROVE  /\ Follows(s, m, t, Feed(s, m, t))
         /\ Tells(s, m, Feed(s, m, t))
<1> DEFINE heard == [s EXCEPT !.known = TRUE, !.lastSeen = t, !.timedOut = FALSE]
           resumed == EmitIf(heard, s.timedOut, "resumed")
           other == m.control # s.last.control
           told == EmitIf(resumed, other, "configuration")
           r == Feed(s, m, t)
<1>1. /\ heard \in GooseStream /\ heard.known = TRUE /\ heard.last = s.last
      /\ heard.lastSeen = t /\ heard.timedOut = FALSE
      /\ heard.missed = s.missed /\ heard.recent = s.recent
      /\ heard.events = s.events
  BY DEF GooseStream
<1>2. r = IF ~s.known THEN Accept(Emit(heard, "new"), m)
          ELSE Follow(told, m)
  BY <1>1 DEF Feed
<1> HIDE DEF heard
<1>3. s.timedOut \in BOOLEAN /\ other \in BOOLEAN
  BY StreamFields
<1> HIDE DEF other
<1>4. /\ resumed \in GooseStream /\ resumed.known = heard.known
      /\ resumed.last = heard.last /\ resumed.lastSeen = heard.lastSeen
      /\ resumed.timedOut = heard.timedOut /\ resumed.missed = heard.missed
      /\ resumed.recent = heard.recent
      /\ ~s.timedOut => resumed.events = heard.events
  BY <1>1, <1>3, Emits DEF EmitIf, Kinds
<1> HIDE DEF resumed
<1>5. /\ told \in GooseStream /\ told.known = resumed.known
      /\ told.last = resumed.last /\ told.lastSeen = resumed.lastSeen
      /\ told.timedOut = resumed.timedOut /\ told.missed = resumed.missed
      /\ told.recent = resumed.recent
      /\ ~other => told.events = resumed.events
  BY <1>3, <1>4, Emits DEF EmitIf, Kinds
<1> HIDE DEF told
<1>10. /\ told \in GooseStream /\ told.known = TRUE
       /\ told.last = s.last /\ told.lastSeen = t
       /\ told.timedOut = FALSE /\ told.missed = s.missed
       /\ told.recent = s.recent
       /\ ~s.timedOut /\ ~other => told.events = s.events
  BY <1>1, <1>4, <1>5
<1>6. CASE ~s.known
  <2> DEFINE new == Emit(heard, "new")
  <2>1. /\ new \in GooseStream /\ new.known = TRUE /\ new.lastSeen = t
        /\ new.timedOut = FALSE /\ new.missed = s.missed
        /\ new.recent = s.recent /\ new.events = s.events \cup {"new"}
    BY <1>1, Emits DEF Kinds
  <2> HIDE DEF new
  <2> DEFINE after == Accept(new, m)
  <2>2. /\ after \in GooseStream /\ after.known = TRUE /\ after.lastSeen = t
        /\ after.timedOut = FALSE /\ after.missed = s.missed
        /\ after.last = m /\ after.recent = Pushed(s.recent, m.sq)
        /\ after.events = s.events \cup {"new"}
    BY <2>1, Accepts
  <2>3. r = after
    BY <1>2, <1>6 DEF new
  <2> HIDE DEF after, r
  <2> QED
    BY <1>6, <2>2, <2>3 DEF r, Follows, Tells
<1>7. CASE s.known /\ IsLate(s.last, m)
  <2> DEFINE after == Late(told, m.sq)
  <2>1. r = after
    BY <1>2, <1>10, <1>7 DEF Follow
  <2>2. m.sq \in Num
    BY FrameFields
  <2>3. /\ after \in GooseStream /\ after.known = TRUE
        /\ after.last = s.last /\ after.lastSeen = t /\ after.timedOut = FALSE
        /\ m.sq \in Range(s.recent) =>
             after.missed = s.missed /\ after.recent = s.recent
        /\ m.sq \notin Range(s.recent) =>
             /\ after.missed = IF s.missed = 0 THEN 0 ELSE s.missed - 1
             /\ after.recent = Pushed(s.recent, m.sq)
    BY <1>10, <2>2, Lates
  <2>4. ~Continues(s.last, m) /\ m.st = s.last.st
    BY <1>7 DEF Continues, IsLate
  <2> HIDE DEF after, r
  <2> QED
    BY <1>7, <2>1, <2>3, <2>4 DEF r, Follows, Tells
<1>8. CASE s.known /\ Continues(s.last, m)
  <2> DEFINE after == SameState(told, m)
  <2>1. ~IsLate(s.last, m) /\ m.st = s.last.st
    BY <1>8 DEF Continues
  <2>2. r = after
    BY <1>2, <1>10, <1>8, <2>1 DEF Follow
  <2>3. /\ after \in GooseStream /\ after.known = TRUE
        /\ after.last = m /\ after.lastSeen = t /\ after.timedOut = FALSE
        /\ after.recent = Pushed(s.recent, m.sq)
        /\ after.missed = IF SqNext(s.last.sq, m.sq) THEN s.missed
                          ELSE s.missed + m.sq - s.last.sq - 1
        /\ SqNext(s.last.sq, m.sq) /\ m.values = s.last.values =>
             after.events = told.events
    BY <1>8, <1>10, SameStates
  <2> HIDE DEF after, r
  <2> QED
    BY <1>8, <1>10, <2>1, <2>2, <2>3 DEF r, other, Follows, Tells
<1>9. CASE s.known /\ m.st # s.last.st
  <2> DEFINE after == OtherState(told, m)
             ahead == StAhead(s.last.st, m.st)
  <2>1. ~IsLate(s.last, m) /\ ~Continues(s.last, m)
    BY <1>9 DEF Continues, IsLate
  <2>2. r = after
    BY <1>2, <1>10, <1>9, <2>1 DEF Follow
  <2>3. /\ after \in GooseStream /\ after.known = TRUE
        /\ after.last = m /\ after.lastSeen = t /\ after.timedOut = FALSE
        /\ after.recent = Pushed(<<>>, m.sq)
        /\ after.missed = IF ahead = 0 THEN s.missed ELSE s.missed + ahead - 1
        /\ ahead # 0 => after.events = told.events \cup {"state change"}
    <3>1. LET u == OtherState(told, m)
              forth == StAhead(told.last.st, m.st)
          IN  /\ u \in GooseStream
              /\ u.known = told.known /\ u.last = m
              /\ u.lastSeen = told.lastSeen /\ u.timedOut = told.timedOut
              /\ u.recent = Pushed(<<>>, m.sq)
              /\ u.missed = IF forth = 0 THEN told.missed
                            ELSE told.missed + forth - 1
              /\ forth # 0 => u.events = told.events \cup {"state change"}
      BY <1>10, OtherStates
    <3> QED
      BY <1>10, <3>1
  <2> HIDE DEF after, ahead, r
  <2> QED
    BY <1>10, <1>9, <2>1, <2>2, <2>3 DEF r, ahead, other, Follows, Tells
<1> QED
  BY <1>6, <1>7, <1>8, <1>9, StreamFields DEF Continues

----------------------------------------------------------------------------
(* What a step of the publisher sends                                      *)

\* Nothing; what is published waits for the thread.
Waits ==
    /\ wire' = wire
    /\ pub'.st = pub.st /\ pub'.sq = pub.sq
    /\ pub'.due = pub.due /\ pub'.interval = pub.interval
    /\ pub'.control = pub.control
    /\ pub'.changed \/ (pub'.changed = pub.changed /\ pub'.values = pub.values)
    /\ pub'.thread = "running" /\ pub.thread # "running" => pub'.changed
    /\ pub'.thread = "stopping" => pub.thread \in {"running", "stopping"}
    /\ pub'.thread = "none" => pub.thread \in {"none", "stopping"}

Restarts ==
    /\ wire' = wire
    /\ pub'.st = 0 /\ pub'.sq = 0 /\ pub'.changed
    /\ pub'.control # pub.control

\* f, from a publisher whose thread has been started.
Sends(f) ==
    /\ wire' = Append(wire, f)
    /\ pub.thread # "none" /\ pub'.thread = pub.thread
    /\ f.control = pub.control /\ pub'.control = pub.control
    /\ f.values = pub'.values /\ ~pub'.changed
    /\ pub'.st = f.st /\ pub'.sq = NextNum(f.sq)

SendsState(f) ==
    /\ f.st = NextNum(pub.st) /\ f.sq = 0
    /\ pub'.due > now /\ pub'.due <= now + f.tal

SendsAgain(f) ==
    /\ ~pub.changed /\ pub.thread = "running" /\ pub.due <= now
    /\ f.st = pub.st /\ f.sq = pub.sq /\ f.values = pub.values
    /\ pub'.due > pub.due /\ pub'.due <= pub.due + f.tal

LEMMA Timing ==
  ASSUME NEW i \in 1 .. MaxTime
  PROVE  /\ TalFactor * i \in Nat /\ TalFactor * i >= i
         /\ NextInterval(i) \in 1 .. MaxTime
<1>1. MaxTime \in Nat /\ TalFactor \in Nat /\ TalFactor >= 1 /\ MaxTime >= 1
  BY PublisherAssumption
<1>2. i \in Nat /\ i >= 1 /\ i <= MaxTime
  BY <1>1
<1>3. \A a, b \in Nat : a >= 1 => a * b \in Nat /\ a * b >= b
  <2> SUFFICES ASSUME NEW a \in Nat, NEW b \in Nat, a >= 1
               PROVE  a * b \in Nat /\ a * b >= b
    OBVIOUS
  <2>1. a * b = b + (a - 1) * b
    OBVIOUS
  <2>2. \A x, y \in Nat : x * y \in Nat
    OBVIOUS
  <2>3. a - 1 \in Nat
    OBVIOUS
  <2> DEFINE c == (a - 1) * b
  <2>4. c \in Nat
    BY <2>2, <2>3
  <2> HIDE DEF c
  <2> QED
    BY <2>1, <2>4 DEF c
<1> QED
  BY <1>1, <1>2, <1>3 DEF NextInterval

LEMMA NextNums ==
  ASSUME NEW n \in Num
  PROVE  /\ NextNum(n) \in Num /\ NextNum(n) # n /\ NextNum(n) > 0
         /\ NextNum(n) = IF n = NumMax THEN 1 ELSE n + 1
BY NumFields DEF NextNum

(***************************************************************************)
(* The bytes sent and the publisher after that.                            *)
(***************************************************************************)
LEMMA SendDueFacts ==
  ASSUME NEW p \in Publisher, SendDue(p)
  PROVE  LET f == FrameOf(p)
         IN  /\ f \in Frame
             /\ f.st = p.st /\ f.sq = p.sq /\ f.values = p.values
             /\ f.control = p.control /\ f.tal >= p.interval
             /\ wire' = Append(wire, f)
             /\ pub' \in Publisher
             /\ pub'.st = p.st /\ pub'.sq = NextNum(p.sq)
             /\ pub'.values = p.values /\ pub'.changed = p.changed
             /\ pub'.thread = p.thread /\ pub'.control = p.control
             /\ pub'.due = p.due + p.interval
<1>1. /\ p.interval \in 1 .. MaxTime /\ p.sq \in Num /\ p.st \in Num
      /\ p.due \in Nat /\ p.values \in Nat /\ p.control \in Nat
  BY DEF Publisher
<1>2. MaxTime \in Nat
  BY PublisherAssumption
<1> DEFINE tal == TalFactor * p.interval
           due == p.due + p.interval
           sq == NextNum(p.sq)
           interval == NextInterval(p.interval)
<1>3. /\ tal \in Nat /\ tal >= p.interval /\ due \in Nat /\ sq \in Num
      /\ interval \in 1 .. MaxTime
  BY <1>1, <1>2, Timing, NextNums
<1>4. pub' = [p EXCEPT !.due = due, !.sq = sq, !.interval = interval]
  BY DEF SendDue, Publisher
<1>5. FrameOf(p) = [st |-> p.st, sq |-> p.sq, tal |-> tal,
                    values |-> p.values, control |-> p.control]
  BY DEF FrameOf
<1>6. wire' = Append(wire, FrameOf(p))
  BY DEF SendDue
<1> HIDE DEF tal, due, sq, interval
<1>7. /\ FrameOf(p) \in Frame /\ FrameOf(p).tal = tal
      /\ FrameOf(p).st = p.st /\ FrameOf(p).sq = p.sq
      /\ FrameOf(p).values = p.values /\ FrameOf(p).control = p.control
  BY <1>1, <1>3, <1>5 DEF Frame
<1>8. /\ pub' \in Publisher
      /\ pub'.st = p.st /\ pub'.sq = sq
      /\ pub'.values = p.values /\ pub'.changed = p.changed
      /\ pub'.thread = p.thread /\ pub'.control = p.control
      /\ pub'.due = due
  BY <1>3, <1>4 DEF Publisher
<1> QED
  BY <1>3, <1>6, <1>7, <1>8 DEF sq, due

LEMMA NewStateFacts ==
  ASSUME NEW p \in Publisher, now \in Nat
  PROVE  LET q == NewState(p)
         IN  /\ q \in Publisher
             /\ q.st = NextNum(p.st) /\ q.sq = 0 /\ q.changed = FALSE
             /\ q.values = p.values /\ q.thread = p.thread
             /\ q.control = p.control /\ q.due = now /\ q.interval = 1
<1>1. p.st \in Num /\ NextNum(p.st) \in Num /\ 0 \in Num /\ 1 \in 1 .. MaxTime
  BY NextNums, NumFields, PublisherAssumption DEF Publisher
<1> DEFINE st == NextNum(p.st)
<1>2. NewState(p) = [p EXCEPT !.changed = FALSE, !.st = st, !.sq = 0,
                              !.interval = 1, !.due = now]
  BY DEF NewState, Publisher
<1>3. st \in Num
  BY <1>1
<1> HIDE DEF st
<1>4. /\ NewState(p) \in Publisher
      /\ NewState(p).st = st /\ NewState(p).sq = 0
      /\ NewState(p).changed = FALSE
      /\ NewState(p).values = p.values /\ NewState(p).thread = p.thread
      /\ NewState(p).control = p.control /\ NewState(p).due = now
      /\ NewState(p).interval = 1
  BY <1>1, <1>2, <1>3 DEF Publisher
<1> QED
  BY <1>4 DEF st

(***************************************************************************)
(* A step of the publisher waits, restarts or sends one frame.             *)
(***************************************************************************)
LEMMA PublisherStep ==
  ASSUME pub \in Publisher, now \in Nat, PublisherNext
  PROVE  /\ pub' \in Publisher /\ now' = now
         /\ \/ Waits
            \/ Restarts
            \/ \E f \in Frame : Sends(f) /\ (SendsState(f) \/ SendsAgain(f))
<1> DEFINE Result ==
      /\ pub' \in Publisher /\ now' = now
      /\ \/ Waits
         \/ Restarts
         \/ \E f \in Frame : Sends(f) /\ (SendsState(f) \/ SendsAgain(f))
<1> SUFFICES Result
  OBVIOUS
<1>1. ASSUME NEW p \in Publisher, SendDue(NewState(p)), now' = now,
             p.st = pub.st, p.thread = pub.thread, p.control = pub.control,
             pub.thread # "none"
      PROVE  Result
  <2> DEFINE q == NewState(p)
             f == FrameOf(q)
  <2>1. /\ q \in Publisher
        /\ q.st = NextNum(p.st) /\ q.sq = 0 /\ q.changed = FALSE
        /\ q.values = p.values /\ q.thread = p.thread
        /\ q.control = p.control /\ q.due = now /\ q.interval = 1
    BY NewStateFacts
  <2>2. SendDue(q)
    BY <1>1
  <2> HIDE DEF q
  <2>3. /\ f \in Frame
        /\ f.st = q.st /\ f.sq = q.sq /\ f.values = q.values
        /\ f.control = q.control /\ f.tal >= q.interval
        /\ wire' = Append(wire, f)
        /\ pub' \in Publisher
        /\ pub'.st = q.st /\ pub'.sq = NextNum(q.sq)
        /\ pub'.values = q.values /\ pub'.changed = q.changed
        /\ pub'.thread = q.thread /\ pub'.control = q.control
        /\ pub'.due = q.due + q.interval
    BY <2>1, <2>2, SendDueFacts
  <2> HIDE DEF f
  <2>4. f.tal \in Nat
    BY <2>3, FrameFields
  <2>5. SendsState(f)
    BY <1>1, <2>1, <2>3, <2>4 DEF SendsState
  <2>6. Sends(f)
    BY <1>1, <2>1, <2>3 DEF Sends
  <2> QED
    BY <1>1, <2>3, <2>5, <2>6
<1>2. CASE Start
  <2>1. pub' = [pub EXCEPT !.thread = "running", !.changed = TRUE]
    BY <1>2 DEF Start
  <2>2. /\ pub' \in Publisher
        /\ pub'.st = pub.st /\ pub'.sq = pub.sq
        /\ pub'.due = pub.due /\ pub'.interval = pub.interval
        /\ pub'.control = pub.control /\ pub'.changed /\ pub'.thread = "running"
    BY <2>1 DEF Publisher
  <2> QED
    BY <1>2, <2>2 DEF Start, Waits
<1>3. ASSUME NEW sendNow \in BOOLEAN, Publish(sendNow)
      PROVE  Result
  <2> DEFINE values == pub.values + 1
             p == [pub EXCEPT !.values = values]
  <2>1. values \in Nat
    BY DEF Publisher
  <2>2. \/ /\ pub.thread # "none" /\ SendDue(NewState(p))
        \/ pub' = [p EXCEPT !.changed = TRUE] /\ wire' = wire
    BY <1>3 DEF Publish
  <2>3. now' = now
    BY <1>3 DEF Publish
  <2> HIDE DEF values
  <2>4. /\ p \in Publisher /\ p.st = pub.st /\ p.sq = pub.sq
        /\ p.due = pub.due /\ p.interval = pub.interval
        /\ p.thread = pub.thread /\ p.control = pub.control
    BY <2>1 DEF Publisher
  <2> HIDE DEF p
  <2>5. CASE pub.thread # "none" /\ SendDue(NewState(p))
    BY <1>1, <2>3, <2>4, <2>5
  <2>6. CASE pub' = [p EXCEPT !.changed = TRUE] /\ wire' = wire
    <3>1. /\ pub' \in Publisher
          /\ pub'.st = p.st /\ pub'.sq = p.sq
          /\ pub'.due = p.due /\ pub'.interval = p.interval
          /\ pub'.control = p.control /\ pub'.changed
          /\ pub'.thread = p.thread
      BY <2>4, <2>6 DEF Publisher
    <3>2. pub.thread \in {"none", "running", "stopping"}
      BY DEF Publisher
    <3>3. Waits
      BY <2>4, <2>6, <3>1, <3>2 DEF Waits
    <3> QED
      BY <2>3, <3>1, <3>3
  <2> QED
    BY <2>2, <2>5, <2>6
<1>4. CASE Run
  <2>1. pub.thread = "running" /\ now' = now
    BY <1>4 DEF Run
  <2>2. CASE pub.changed /\ SendDue(NewState(pub))
    BY <1>1, <2>1, <2>2
  <2>3. CASE ~pub.changed /\ pub.due <= now /\ SendDue(pub)
    <3> DEFINE f == FrameOf(pub)
    <3>1. /\ f \in Frame
          /\ f.st = pub.st /\ f.sq = pub.sq /\ f.values = pub.values
          /\ f.control = pub.control /\ f.tal >= pub.interval
          /\ wire' = Append(wire, f)
          /\ pub' \in Publisher
          /\ pub'.st = pub.st /\ pub'.sq = NextNum(pub.sq)
          /\ pub'.values = pub.values /\ pub'.changed = pub.changed
          /\ pub'.thread = pub.thread /\ pub'.control = pub.control
          /\ pub'.due = pub.due + pub.interval
      BY <2>3, SendDueFacts
    <3> HIDE DEF f
    <3>2. f.tal \in Nat /\ pub.due \in Nat /\ pub.interval \in Nat
          /\ pub.interval >= 1
      BY <3>1, FrameFields, PublisherAssumption DEF Publisher
    <3>3. Sends(f)
      BY <2>1, <2>3, <3>1 DEF Sends
    <3>4. SendsAgain(f)
      BY <2>1, <2>3, <3>1, <3>2 DEF SendsAgain
    <3> QED
      BY <2>1, <3>1, <3>3, <3>4
  <2> QED
    BY <1>4, <2>2, <2>3 DEF Run
<1>5. CASE Stop \/ Joined
  <2> DEFINE thread == IF Stop THEN "stopping" ELSE "none"
  <2>1. /\ pub' = [pub EXCEPT !.thread = thread]
        /\ wire' = wire /\ now' = now
        /\ pub.thread = IF Stop THEN "running" ELSE "stopping"
    BY <1>5 DEF Stop, Joined
  <2>2. thread \in {"stopping", "none"}
    OBVIOUS
  <2>3. /\ pub' \in Publisher
        /\ pub'.st = pub.st /\ pub'.sq = pub.sq
        /\ pub'.due = pub.due /\ pub'.interval = pub.interval
        /\ pub'.control = pub.control /\ pub'.changed = pub.changed
        /\ pub'.values = pub.values /\ pub'.thread = thread
    BY <2>1, <2>2 DEF Publisher
  <2>4. Waits
    BY <2>1, <2>3 DEF Waits
  <2> QED
    BY <2>1, <2>3, <2>4
<1>6. CASE Restart
  <2> DEFINE p == New(1, pub.values)
  <2>1. /\ pub' = [p EXCEPT !.thread = "running", !.changed = TRUE]
        /\ wire' = wire /\ now' = now /\ pub.control = 0
    BY <1>6 DEF Restart
  <2>2. /\ p \in Publisher /\ p.st = 0 /\ p.sq = 0 /\ p.control = 1
    BY NumFields, PublisherAssumption DEF New, Publisher
  <2> HIDE DEF p
  <2>3. /\ pub' \in Publisher /\ pub'.st = 0 /\ pub'.sq = 0
        /\ pub'.control = 1 /\ pub'.changed
    BY <2>1, <2>2 DEF Publisher
  <2> QED
    BY <2>1, <2>3 DEF Restarts
<1> HIDE DEF Result
<1>7. \/ Start \/ Run \/ Stop \/ Joined \/ Restart
      \/ \E sendNow \in BOOLEAN : Publish(sendNow)
  BY DEF PublisherNext
<1> QED
  BY <1>2, <1>3, <1>4, <1>5, <1>6, <1>7, Zenon

----------------------------------------------------------------------------
(* Types                                                                   *)

(***************************************************************************)
(* What stays when a frame is taken from the wire.                         *)
(***************************************************************************)
LEMMA Removed ==
  ASSUME NEW w \in Seq(Frame), NEW i \in 1 .. Len(w)
  PROVE  LET r == RemoveAt(w, i)
         IN  /\ r \in Seq(Frame) /\ Len(r) = Len(w) - 1
             /\ \A j \in 1 .. Len(r) :
                  r[j] = IF j < i THEN w[j] ELSE w[j + 1]
<1> DEFINE a == SubSeq(w, 1, i - 1)
           b == SubSeq(w, i + 1, Len(w))
<1>1. RemoveAt(w, i) = a \o b
  BY DEF RemoveAt
<1>2. Len(w) \in Nat /\ i \in Nat
  BY LenProperties
<1>3. /\ a \in Seq(Frame) /\ Len(a) = i - 1
      /\ \A j \in 1 .. i - 1 : a[j] = w[j]
  <2>1. /\ SubSeq(w, 1, i - 1) \in Seq(Frame)
        /\ Len(SubSeq(w, 1, i - 1)) = IF 1 <= i - 1 THEN i - 1 ELSE 0
    BY <1>2, SubSeqProperties
  <2> QED
    BY <1>2, <2>1, SubSeqProperties
<1>4. /\ b \in Seq(Frame) /\ Len(b) = Len(w) - i
      /\ \A j \in 1 .. Len(w) - i : b[j] = w[j + i]
  BY <1>2, SubSeqProperties
<1> HIDE DEF a, b
<1>5. /\ a \o b \in Seq(Frame) /\ Len(a \o b) = Len(a) + Len(b)
      /\ \A j \in 1 .. Len(a) + Len(b) :
           (a \o b)[j] = IF j <= Len(a) THEN a[j] ELSE b[j - Len(a)]
  BY <1>3, <1>4, ConcatProperties
<1> DEFINE r == a \o b
<1>6. r \in Seq(Frame) /\ Len(r) = Len(w) - 1
  BY <1>2, <1>3, <1>4, <1>5
<1>7. ASSUME NEW j \in 1 .. Len(w) - 1
      PROVE  r[j] = IF j < i THEN w[j] ELSE w[j + 1]
  <2>1. r[j] = IF j <= i - 1 THEN a[j] ELSE b[j - (i - 1)]
    BY <1>2, <1>3, <1>4, <1>5
  <2>2. CASE j < i
    BY <1>2, <1>3, <2>1, <2>2
  <2>3. CASE ~(j < i)
    <3>1. j - (i - 1) \in 1 .. Len(w) - i /\ (j - (i - 1)) + i = j + 1
      BY <1>2, <2>3
    <3>2. b[j - (i - 1)] = w[(j - (i - 1)) + i]
      BY <1>4, <3>1
    <3>3. r[j] = b[j - (i - 1)]
      BY <1>2, <2>1, <2>3
    <3> QED
      BY <2>3, <3>1, <3>2, <3>3
  <2> QED
    BY <2>2, <2>3
<1>8. RemoveAt(w, i) = r
  BY <1>1
<1> HIDE DEF r
<1> QED
  BY <1>6, <1>7, <1>8

LEMMA Delivered ==
  ASSUME TypeOK, NEW i \in DOMAIN wire, NEW again \in BOOLEAN, Deliver(i, again)
  PROVE  wire[i] \in Frame /\ Follows(stream, wire[i], now, stream')
<1> DEFINE s == Check(stream, now)
           m == wire[i]
<1>1. m \in Frame /\ now \in Nat /\ stream \in GooseStream
  BY ElementOfSeq, LenProperties DEF TypeOK
<1>2. /\ s \in GooseStream
      /\ s.known = stream.known /\ s.last = stream.last
      /\ s.missed = stream.missed /\ s.recent = stream.recent
  BY <1>1, Checks
<1>3. stream' = Feed(s, m, now)
  BY DEF Deliver
<1> HIDE DEF s, m
<1>4. Follows(s, m, now, stream')
  BY <1>1, <1>2, <1>3, Feeds
<1>5. Follows(stream, m, now, stream')
  BY <1>2, <1>4 DEF Follows
<1> QED
  BY <1>1, <1>5 DEF m

Typed ==
    /\ TypeOK
    /\ lastFed \in Frame
    /\ lost \in SUBSET (Num \X Num) /\ fed \in SUBSET (Num \X Num)

LEMMA NothingIsAFrame ==
  pub = New(0, 0) /\ now = 0 => pub \in Publisher
BY NumFields, PublisherAssumption DEF New, Publisher

LEMMA InitTyped == Init => Typed
<1> SUFFICES ASSUME Init PROVE Typed
  OBVIOUS
<1>1. now = 0 /\ wire = <<>> /\ pub = New(0, 0)
  BY DEF Init, PublisherInit
<1>2. pub \in Publisher
  BY <1>1, NothingIsAFrame
<1>3. <<>> \in Seq(Frame) /\ <<>> \in Seq(Num)
  BY EmptySeq
<1>4. Nothing \in Frame
  <2>1. New(0, 0).interval = 1 /\ 1 \in 1 .. MaxTime
    BY PublisherAssumption DEF New
  <2>2. TalFactor * 1 \in Nat
    BY <2>1, Timing
  <2>3. /\ New(0, 0).st = 0 /\ New(0, 0).sq = 0 /\ New(0, 0).values = 0
        /\ New(0, 0).control = 0
    BY DEF New
  <2>4. Nothing = [st |-> 0, sq |-> 0, tal |-> TalFactor * 1, values |-> 0,
                   control |-> 0]
    BY <2>1, <2>3 DEF Nothing, FrameOf
  <2> QED
    BY <2>2, <2>4, NumFields DEF Frame
<1>5. Unknown(Nothing) \in GooseStream
  BY <1>3, <1>4 DEF Unknown, GooseStream
<1> QED
  BY <1>1, <1>2, <1>3, <1>4, <1>5 DEF Init, Typed, TypeOK

LEMMA NumberType ==
  ASSUME NEW f \in Frame
  PROVE  Number(f) \in Num \X Num
BY FrameFields DEF Number

LEMMA NextTyped ==
  ASSUME Typed, [Next]_vars
  PROVE  Typed'
<1> USE DEF Typed
<1>1. CASE Published
  <2>1. PublisherNext /\ stream' = stream /\ history' = history
    BY <1>1 DEF Published, history
  <2>2. pub' \in Publisher /\ now' = now
    BY <2>1, PublisherStep DEF TypeOK
  <2>3. wire' \in Seq(Frame)
    <3>1. CASE wire' = wire
      BY <3>1 DEF TypeOK
    <3>2. ASSUME NEW f \in Frame, wire' = Append(wire, f)
          PROVE  wire' \in Seq(Frame)
      BY <3>2, AppendProperties DEF TypeOK
    <3> QED
      BY <2>1, <3>1, <3>2, PublisherStep DEF TypeOK, Waits, Restarts, Sends
  <2>4. /\ stream' \in GooseStream /\ now' \in Nat
        /\ lastFed' = lastFed /\ lost' = lost /\ fed' = fed
    BY <2>1, <2>2 DEF TypeOK, history
  <2> QED
    BY <2>2, <2>3, <2>4 DEF TypeOK
<1>2. ASSUME NEW i \in DOMAIN wire, NEW again \in BOOLEAN, Deliver(i, again)
      PROVE  Typed'
  <2>1. wire[i] \in Frame /\ stream' \in GooseStream
    BY <1>2, Delivered DEF Follows
  <2>2. wire' \in Seq(Frame)
    <3>1. i \in 1 .. Len(wire)
      BY LenProperties DEF TypeOK
    <3> QED
      BY <1>2, <3>1, Removed DEF Deliver, TypeOK
  <2>3. lastFed' \in Frame
    BY <1>2, <2>1 DEF Deliver
  <2>4. fed' \in SUBSET (Num \X Num) /\ lost' = lost
    BY <1>2, <2>1, NumberType DEF Deliver, Note
  <2>5. pub' = pub /\ now' = now
    BY <1>2 DEF Deliver
  <2> QED
    BY <2>1, <2>2, <2>3, <2>4, <2>5 DEF TypeOK
<1>3. ASSUME NEW i \in DOMAIN wire, Lose(i)
      PROVE  Typed'
  <2>1. i \in 1 .. Len(wire) /\ wire[i] \in Frame
    BY ElementOfSeq, LenProperties DEF TypeOK
  <2>2. wire' \in Seq(Frame)
    BY <1>3, <2>1, Removed DEF Lose, TypeOK
  <2>3. lost' \in SUBSET (Num \X Num)
    BY <1>3, <2>1, NumberType DEF Lose, Note
  <2> QED
    BY <1>3, <2>2, <2>3 DEF Lose, TypeOK
<1>4. CASE Supervise
  <2>1. stream' \in GooseStream
    BY <1>4, Checks DEF Supervise, TypeOK
  <2> QED
    BY <1>4, <2>1 DEF Supervise, history, TypeOK
<1>5. CASE Tick
  BY <1>5 DEF Tick, history, TypeOK
<1>6. CASE UNCHANGED vars
  BY <1>6 DEF vars, TypeOK
<1> QED
  BY <1>1, <1>2, <1>3, <1>4, <1>5, <1>6 DEF Next

LEMMA AlwaysTyped == Spec => []Typed
BY InitTyped, NextTyped, PTL DEF Spec

(***************************************************************************)
(* What is on the wire, in the stream and in the publisher has its type,   *)
(* whatever the network does: in particular missed is never negative and   *)
(* the wire numbers stay in 0 .. _UINT32_MAX.                              *)
(***************************************************************************)
THEOREM TypeCorrect == Spec => []TypeOK
BY AlwaysTyped, PTL DEF Typed

----------------------------------------------------------------------------
(* The last values are sent                                                *)

(***************************************************************************)
(* publish() from any thread, around start(), a repetition and stop(): a   *)
(* thread that has nothing left to send has sent the last values.          *)
(***************************************************************************)
THEOREM LastValuesAreSent == Spec => []CurrentIsSent
<1>1. Init => CurrentIsSent
  BY DEF Init, PublisherInit, New, CurrentIsSent
<1>2. ASSUME Typed, CurrentIsSent, [Next]_vars
      PROVE  CurrentIsSent'
  <2> USE DEF CurrentIsSent
  <2>1. CASE Published
    <3>1. PublisherNext /\ pub \in Publisher /\ now \in Nat
          /\ wire \in Seq(Frame)
      BY <1>2, <2>1 DEF Published, Typed, TypeOK
    <3>2. lastSent' = IF wire' # wire THEN Last(wire').values ELSE lastSent
      BY <2>1 DEF Published
    <3>3. CASE Waits
      BY <1>2, <3>2, <3>3 DEF Waits
    <3>4. CASE Restarts
      BY <3>4 DEF Restarts
    <3>5. ASSUME NEW f \in Frame, Sends(f)
          PROVE  CurrentIsSent'
      <4>1. wire' = Append(wire, f) /\ f.values = pub'.values
        BY <3>5 DEF Sends
      <4>2. /\ Len(Append(wire, f)) = Len(wire) + 1
            /\ Append(wire, f)[Len(wire) + 1] = f
        BY <3>1, AppendProperties
      <4>3. wire' # wire /\ Last(wire') = f
        BY <3>1, <4>1, <4>2, LenProperties DEF Last
      <4> QED
        BY <3>2, <4>1, <4>3
    <3> QED
      BY <3>1, <3>3, <3>4, <3>5, PublisherStep
  <2>2. CASE pub' = pub /\ lastSent' = lastSent
    BY <1>2, <2>2
  <2> QED
    BY <1>2, <2>1, <2>2
       DEF Next, Deliver, Lose, Supervise, Tick, vars
<1> QED
  BY <1>1, <1>2, AlwaysTyped, PTL DEF Spec

----------------------------------------------------------------------------
(* Frames that follow each other                                           *)

\* The message the stream is at, and the frames that are to come.
LineOf(s, w) == (IF s.known THEN <<s.last>> ELSE <<>>) \o w
Line == LineOf(stream, wire)

Undisturbed == trouble \subseteq {"wrap", "restart", "delay", "stop"}

\* g is what a publisher sends after f, or its successor, in another state.
Succeeds(restarted, f, g) ==
    \/ /\ g.st = f.st /\ g.sq = NextNum(f.sq)
       /\ g.values = f.values /\ g.control = f.control
    \/ g.st = NextNum(f.st) /\ g.sq = 0 /\ g.control = f.control
    \/ restarted /\ g.st # f.st

\* What the publisher p sends next succeeds f.
Awaits(restarted, p, f) ==
    \/ /\ p.st = f.st /\ p.sq = NextNum(f.sq)
       /\ p.control = f.control /\ (p.changed \/ p.values = f.values)
    \/ restarted /\ p.st = 0 /\ p.changed /\ f.st # 1

Restarted == "restart" \in trouble

InOrder ==
    Undisturbed =>
      /\ \A i \in 1 .. Len(Line) - 1 : Succeeds(Restarted, Line[i], Line[i + 1])
      /\ Line # <<>> => Awaits(Restarted, pub, Line[Len(Line)])
      /\ stream.known => stream.last = lastFed

Untroubled == trouble \subseteq {"wrap"}

\* A repetition is due before the time allowed to live of the last frame ends.
InTime ==
    Untroubled =>
      /\ stream.events \subseteq {"new", "state change"} /\ ~stream.timedOut
      /\ stream.known => now <= stream.lastSeen + stream.last.tal
      /\ pub.thread # "stopping"
      /\ pub.thread = "running" /\ ~pub.changed => now <= pub.due
      /\ Line # <<>> =>
           /\ pub.thread = "running"
           /\ now <= pub.due
           /\ pub.due <= (IF wire = <<>> THEN stream.lastSeen ELSE now)
                         + Line[Len(Line)].tal

Precedes(f, g) == f.st < g.st \/ (f.st = g.st /\ f.sq < g.sq)

OnWire(w, st, sq) == \E i \in DOMAIN w : w[i].st = st /\ w[i].sq = sq

Behind(s, st, sq) ==
    s.known /\ (st < s.last.st \/ (st = s.last.st /\ sq <= s.last.sq))

\* The number has been lost, is on its way, or is behind the stream.
Accounted(l, w, s, st, sq) ==
    <<st, sq>> \in l \/ OnWire(w, st, sq) \/ Behind(s, st, sq)

Regular ==
    \/ trouble \subseteq {"loss", "delay", "stop"}
    \/ trouble \subseteq {"disorder", "delay", "stop"}

Ascending(w) == \A i, j \in DOMAIN w : i < j => Precedes(w[i], w[j])

\* Until a number wraps, they are given one by one, and none gets away.
Numbered ==
    Regular =>
      /\ Ascending(wire)
      /\ \A i \in DOMAIN wire : Precedes(wire[i], pub) /\ wire[i].sq < NumMax
      /\ stream.known => Precedes(stream.last, pub) /\ stream.last.sq < NumMax
      /\ \A sq \in Num : sq < pub.sq => Accounted(lost, wire, stream, pub.st, sq)
      /\ \A st, sq, q \in Num :
           (<<st, sq>> \in lost \/ OnWire(wire, st, sq)) /\ q < sq =>
             Accounted(lost, wire, stream, st, q)
      /\ \A st \in Num :
           1 <= st /\ st <= pub.st => Accounted(lost, wire, stream, st, 0)

LossCounted ==
    Orderly =>
      /\ stream.known =>
           /\ stream.last = lastFed
           /\ Number(stream.last) \in fed
           /\ \A n \in fed : Behind(stream, n[1], n[2])
           /\ \A i \in DOMAIN wire : Precedes(stream.last, wire[i])
      /\ ~stream.known => fed = {}
      /\ \A n \in lost : /\ n \notin fed /\ ~OnWire(wire, n[1], n[2])
                         /\ \/ n[1] < pub.st
                            \/ n[1] = pub.st /\ n[2] < pub.sq
      /\ stream.missed = Cardinality(LostBetween) + Cardinality(LostStates)

\* What is behind the stream in its state, on its way, and not known to have come.
Owed(w, s) == {q \in Num : /\ q < s.last.sq /\ q \notin Range(s.recent)
                           /\ OnWire(w, s.last.st, q)}

Lossless == trouble \subseteq {"disorder", "delay", "stop"}

LateAwaited ==
    Lossless =>
      /\ lost = {}
      /\ ~stream.known => stream.missed = 0 /\ stream.recent = <<>>
      /\ stream.known =>
           /\ \A i \in DOMAIN wire : stream.last.st <= wire[i].st
           /\ \A n \in Range(stream.recent) : n <= stream.last.sq
           /\ stream.missed <= Cardinality(Owed(wire, stream))

LEMMA LineFacts ==
  ASSUME NEW s \in GooseStream, NEW w \in Seq(Frame)
  PROVE  LET line == LineOf(s, w)
             k == IF s.known THEN 1 ELSE 0
         IN  /\ line \in Seq(Frame) /\ Len(line) = Len(w) + k
             /\ \A j \in 1 .. Len(w) : line[j + k] = w[j]
             /\ s.known => line[1] = s.last
<1>1. s.last \in Frame
  BY StreamFields
<1>2. CASE s.known
  <2> DEFINE h == <<s.last>>
  <2>1. h \in Seq(Frame) /\ Len(h) = 1 /\ h[1] = s.last
    BY <1>1
  <2>2. LineOf(s, w) = h \o w
    BY <1>2 DEF LineOf
  <2> HIDE DEF h
  <2>3. /\ h \o w \in Seq(Frame) /\ Len(h \o w) = 1 + Len(w)
        /\ \A j \in 1 .. 1 + Len(w) :
             (h \o w)[j] = IF j <= 1 THEN h[j] ELSE w[j - 1]
    <3>1. /\ h \o w \in Seq(Frame) /\ Len(h \o w) = Len(h) + Len(w)
          /\ \A j \in 1 .. Len(h) + Len(w) :
               (h \o w)[j] = IF j <= Len(h) THEN h[j] ELSE w[j - Len(h)]
      BY <2>1, ConcatProperties
    <3> QED
      BY <2>1, <3>1
  <2>4. Len(w) \in Nat
    BY LenProperties
  <2>5. \A j \in 1 .. Len(w) : (h \o w)[j + 1] = w[j]
    BY <2>3, <2>4
  <2>6. (h \o w)[1] = s.last
    BY <2>1, <2>3, <2>4
  <2> QED
    BY <1>2, <2>2, <2>3, <2>4, <2>5, <2>6
<1>3. CASE ~s.known
  <2>1. LineOf(s, w) = w
    BY <1>3, ConcatEmptySeq DEF LineOf
  <2>2. Len(w) \in Nat
    BY LenProperties
  <2> QED
    BY <1>3, <2>1, <2>2
<1> QED
  BY <1>2, <1>3

(***************************************************************************)
(* How the line goes on: it loses its first frame, nothing, or gets a last *)
(* one.                                                                    *)
(***************************************************************************)
Shortened(k) ==
    /\ Line' \in Seq(Frame) /\ Len(Line') = Len(Line) - k
    /\ \A j \in 1 .. Len(Line') : Line'[j] = Line[j + k]

LEMMA LineTyped ==
  ASSUME Typed
  PROVE  /\ Line \in Seq(Frame) /\ Len(Line) \in Nat
         /\ Len(wire) \in Nat /\ (wire = <<>> <=> Len(wire) = 0)
         /\ (Line = <<>> <=> Len(Line) = 0)
         /\ \A j \in 1 .. Len(Line) : Line[j] \in Frame
<1>1. Line \in Seq(Frame) /\ wire \in Seq(Frame)
  BY LineFacts DEF Typed, TypeOK, Line
<1> QED
  BY <1>1, LenProperties, EmptySeq, ElementOfSeq

LEMMA LineKept ==
  ASSUME Typed, wire' = wire, stream'.known = stream.known,
         stream'.last = stream.last
  PROVE  Line' = Line /\ Shortened(0)
<1>1. Line' = Line
  BY DEF Line, LineOf
<1>2. Line \in Seq(Frame) /\ Len(Line) \in Nat
  BY LineTyped
<1> QED
  BY <1>1, <1>2 DEF Shortened

LEMMA LineGrows ==
  ASSUME Typed, NEW f \in Frame, wire' = Append(wire, f), stream' = stream
  PROVE  /\ Line' \in Seq(Frame) /\ Len(Line') = Len(Line) + 1
         /\ \A j \in 1 .. Len(Line) : Line'[j] = Line[j]
         /\ Line'[Len(Line) + 1] = f
<1> DEFINE w == wire'
           k == IF stream.known THEN 1 ELSE 0
<1>1. /\ stream \in GooseStream /\ wire \in Seq(Frame) /\ Len(wire) \in Nat
  BY LineTyped DEF Typed, TypeOK
<1>2. /\ w \in Seq(Frame) /\ Len(w) = Len(wire) + 1
      /\ \A j \in 1 .. Len(wire) : w[j] = wire[j]
      /\ w[Len(wire) + 1] = f
  BY <1>1, AppendProperties
<1>3. Line' = LineOf(stream, w)
  BY DEF Line
<1> HIDE DEF w
<1>4. /\ LineOf(stream, w) \in Seq(Frame)
      /\ Len(LineOf(stream, w)) = Len(w) + k
      /\ \A j \in 1 .. Len(w) : LineOf(stream, w)[j + k] = w[j]
      /\ stream.known => LineOf(stream, w)[1] = stream.last
  BY <1>1, <1>2, LineFacts
<1>5. /\ Len(Line) = Len(wire) + k
      /\ \A j \in 1 .. Len(wire) : Line[j + k] = wire[j]
      /\ stream.known => Line[1] = stream.last
  BY <1>1, LineFacts DEF Line
<1>6. k \in {0, 1} /\ (k = 1 <=> stream.known)
  BY StreamFields, <1>1
<1> HIDE DEF k
<1>7. ASSUME NEW j \in 1 .. Len(Line)
      PROVE  Line'[j] = Line[j]
  <2>1. CASE j <= k
    BY <1>1, <1>3, <1>4, <1>5, <1>6, <2>1
  <2>2. CASE ~(j <= k)
    <3>1. j - k \in 1 .. Len(wire) /\ (j - k) + k = j /\ j - k \in 1 .. Len(w)
      BY <1>1, <1>2, <1>5, <1>6, <2>2
    <3>2. Line[(j - k) + k] = wire[j - k] /\ Line'[(j - k) + k] = w[j - k]
      BY <1>3, <1>4, <1>5, <3>1
    <3>3. w[j - k] = wire[j - k]
      BY <1>2, <3>1
    <3> QED
      BY <3>1, <3>2, <3>3
  <2> QED
    BY <2>1, <2>2
<1>8. Line'[Len(Line) + 1] = f
  <2>1. Len(wire) + 1 \in 1 .. Len(w) /\ Len(Line) + 1 = (Len(wire) + 1) + k
    BY <1>1, <1>2, <1>5, <1>6
  <2> QED
    BY <1>2, <1>3, <1>4, <2>1
<1> QED
  BY <1>1, <1>2, <1>3, <1>4, <1>5, <1>6, <1>7, <1>8

LEMMA LineAdvances ==
  ASSUME Typed, Typed', wire # <<>>, wire' = RemoveAt(wire, 1),
         stream'.known, stream'.last = wire[1]
  PROVE  IF stream.known THEN Shortened(1) ELSE Shortened(0)
<1> DEFINE w == wire'
           s == stream'
           k == IF stream.known THEN 1 ELSE 0
           l == LineOf(s, w)
<1>1. /\ stream \in GooseStream /\ wire \in Seq(Frame)
      /\ Len(wire) \in Nat /\ Len(wire) >= 1
  BY LineTyped DEF Typed, TypeOK
<1>2. s \in GooseStream /\ s.known /\ s.last = wire[1]
  BY DEF Typed, TypeOK
<1>3. /\ w \in Seq(Frame) /\ Len(w) = Len(wire) - 1
      /\ \A j \in 1 .. Len(w) : w[j] = wire[j + 1]
  <2>1. 1 \in 1 .. Len(wire)
    BY <1>1
  <2>2. LET r == RemoveAt(wire, 1)
        IN  /\ r \in Seq(Frame) /\ Len(r) = Len(wire) - 1
            /\ \A j \in 1 .. Len(r) :
                  r[j] = IF j < 1 THEN wire[j] ELSE wire[j + 1]
    BY <1>1, <2>1, Removed
  <2> QED
    BY <1>1, <2>2
<1>4. Line' = l
  BY DEF Line
<1> HIDE DEF w, s
<1>5. /\ l \in Seq(Frame) /\ Len(l) = Len(wire)
      /\ l[1] = wire[1] /\ \A j \in 1 .. Len(w) : l[j + 1] = w[j]
  BY <1>1, <1>2, <1>3, LineFacts
<1> HIDE DEF l
<1>6. \A j \in 1 .. Len(wire) : l[j] = wire[j]
  <2> TAKE j \in 1 .. Len(wire)
  <2>1. CASE j = 1
    BY <1>5, <2>1
  <2>2. CASE j # 1
    <3>1. j - 1 \in 1 .. Len(w) /\ (j - 1) + 1 = j
      BY <1>1, <1>3, <2>2
    <3>2. l[(j - 1) + 1] = w[j - 1] /\ w[j - 1] = wire[(j - 1) + 1]
      BY <1>3, <1>5, <3>1
    <3> QED
      BY <3>1, <3>2
  <2> QED
    BY <2>1, <2>2
<1>7. /\ Len(Line) = Len(wire) + k
      /\ \A j \in 1 .. Len(wire) : Line[j + k] = wire[j]
  BY <1>1, LineFacts DEF Line
<1>8. Shortened(k)
  BY <1>1, <1>4, <1>5, <1>6, <1>7 DEF Shortened
<1> QED
  BY <1>8

(***************************************************************************)
(* The successor of a frame continues its state, or is of another one, and *)
(* is never late: NextNum and _sq_next, _st_ahead agree where they wrap.   *)
(***************************************************************************)
LEMMA SuccessorFacts ==
  ASSUME NEW f \in Frame, NEW g \in Frame, NEW restarted,
         Succeeds(restarted, f, g)
  PROVE  /\ \/ Continues(f, g) /\ SqNext(f.sq, g.sq)
            \/ g.st # f.st
         /\ ~restarted =>
              /\ g.control = f.control
              /\ \/ /\ Continues(f, g) /\ SqNext(f.sq, g.sq)
                    /\ g.values = f.values
                 \/ g.st # f.st /\ StAhead(f.st, g.st) # 0
<1>1. /\ f.st \in Num /\ f.sq \in Num /\ g.st \in Num /\ g.sq \in Num
  BY FrameFields
<1>2. CASE g.st = f.st /\ g.sq = NextNum(f.sq)
  <2>1. g.sq = (IF f.sq = NumMax THEN 1 ELSE f.sq + 1) /\ g.sq # f.sq
    BY <1>1, <1>2, NextNums
  <2>2. SqNext(f.sq, g.sq)
    BY <1>1, <2>1, NumFields DEF SqNext
  <2>3. Continues(f, g)
    BY <1>1, <1>2, <2>1, <2>2, NumFields DEF Continues, IsLate
  <2>4. g.st # NextNum(f.st)
    BY <1>1, <1>2, NextNums
  <2> QED
    BY <1>2, <2>2, <2>3, <2>4 DEF Succeeds
<1>3. CASE g.st = NextNum(f.st)
  <2>1. g.st = (IF f.st = NumMax THEN 1 ELSE f.st + 1) /\ g.st # f.st
    BY <1>1, <1>3, NextNums
  <2>2. StAhead(f.st, g.st) # 0
    BY <1>1, <2>1, NumFields DEF StAhead
  <2> QED
    BY <1>3, <2>1, <2>2 DEF Succeeds
<1> QED
  BY <1>2, <1>3 DEF Succeeds

(***************************************************************************)
(* A step that disturbs nothing takes the frames in their order.           *)
(***************************************************************************)
LEMMA TroubleStays ==
  ASSUME [Next]_vars
  PROVE  trouble \subseteq trouble'
BY DEF Next, Published, Deliver, Lose, Supervise, Tick, vars

LEMMA DeliveredInOrder ==
  ASSUME Typed, NEW i \in DOMAIN wire, NEW again \in BOOLEAN,
         Deliver(i, again), "disorder" \notin trouble'
  PROVE  /\ wire # <<>> /\ wire' = RemoveAt(wire, 1) /\ lastFed' = wire[1]
         /\ i = 1 /\ again = FALSE
         /\ wire[1] \in Frame /\ Follows(stream, wire[1], now, stream')
         /\ trouble' = trouble /\ pub' = pub /\ now' = now
<1>1. /\ stream' = Feed(Check(stream, now), wire[i], now)
      /\ lastFed' = wire[i]
      /\ wire' = IF again THEN wire ELSE RemoveAt(wire, i)
      /\ trouble' = IF again \/ i > 1 THEN trouble \cup {"disorder"}
                    ELSE trouble
      /\ pub' = pub /\ now' = now
  BY DEF Deliver
<1>2. ~again /\ ~(i > 1)
  BY <1>1
<1>3. i \in 1 .. Len(wire) /\ Len(wire) \in Nat /\ wire \in Seq(Frame)
  BY LenProperties DEF Typed, TypeOK
<1>4. i = 1 /\ wire # <<>>
  BY <1>2, <1>3, EmptySeq
<1>5. wire[i] \in Frame /\ Follows(stream, wire[i], now, stream')
  BY Delivered DEF Typed
<1> QED
  BY <1>1, <1>2, <1>4, <1>5

LEMMA InOrderShortened ==
  ASSUME Typed, InOrder, Undisturbed, NEW k \in {0, 1}, Shortened(k),
         Restarted => Restarted',
         Line # <<>> /\ Awaits(Restarted, pub, Line[Len(Line)]) =>
           Awaits(Restarted', pub', Line[Len(Line)]),
         stream'.known => stream'.last = lastFed'
  PROVE  InOrder'
<1>1. Line \in Seq(Frame) /\ Len(Line) \in Nat /\ (Line = <<>> <=> Len(Line) = 0)
  BY LineTyped
<1>2. /\ Line' \in Seq(Frame) /\ Len(Line') \in Nat
      /\ Len(Line') = Len(Line) - k /\ (Line' = <<>> <=> Len(Line') = 0)
      /\ \A j \in 1 .. Len(Line') : Line'[j] = Line[j + k]
  BY LenProperties, EmptySeq DEF Shortened
<1>3. ASSUME NEW i \in 1 .. Len(Line') - 1
      PROVE  Succeeds(Restarted', Line'[i], Line'[i + 1])
  <2>1. /\ i \in 1 .. Len(Line') /\ i + 1 \in 1 .. Len(Line')
        /\ i + k \in 1 .. Len(Line) - 1 /\ (i + 1) + k = (i + k) + 1
    BY <1>1, <1>2
  <2>2. Line'[i] = Line[i + k] /\ Line'[i + 1] = Line[(i + k) + 1]
    BY <1>2, <2>1
  <2>3. Succeeds(Restarted, Line[i + k], Line[(i + k) + 1])
    BY <2>1 DEF InOrder
  <2> QED
    BY <2>2, <2>3 DEF Succeeds
<1>4. ASSUME Line' # <<>>
      PROVE  Awaits(Restarted', pub', Line'[Len(Line')])
  <2>1. Len(Line') \in 1 .. Len(Line') /\ Len(Line') + k = Len(Line)
    BY <1>1, <1>2, <1>4
  <2>2. Line'[Len(Line')] = Line[Len(Line)] /\ Line # <<>>
    BY <1>1, <1>2, <2>1
  <2> QED
    BY <2>2 DEF InOrder
<1> QED
  BY <1>3, <1>4 DEF InOrder

LEMMA NextInOrder ==
  ASSUME Typed, Typed', InOrder, [Next]_vars
  PROVE  InOrder'
<1> SUFFICES ASSUME Undisturbed' PROVE InOrder'
  BY DEF InOrder
<1>1. trouble \subseteq trouble' /\ Undisturbed /\ (Restarted => Restarted')
  BY TroubleStays DEF Undisturbed, Restarted
<1>2. stream.known => stream.last = lastFed
  BY <1>1 DEF InOrder
<1>3. /\ stream \in GooseStream /\ wire \in Seq(Frame) /\ now \in Nat
      /\ pub \in Publisher
  BY DEF Typed, TypeOK
<1>4. CASE Published
  <2>1. PublisherNext /\ stream' = stream /\ lastFed' = lastFed
    BY <1>4 DEF Published, history
  <2>2. CASE Waits
    <3>1. Shortened(0)
      BY <2>1, <2>2, LineKept DEF Waits
    <3>2. Line # <<>> /\ Awaits(Restarted, pub, Line[Len(Line)]) =>
            Awaits(Restarted', pub', Line[Len(Line)])
      BY <1>1, <2>2 DEF Waits, Awaits
    <3> QED
      BY <1>1, <1>2, <2>1, <3>1, <3>2, InOrderShortened
  <2>3. CASE Restarts
    <3>1. Shortened(0)
      BY <2>1, <2>3, LineKept DEF Restarts
    <3>2. pub.st # 1 /\ "restart" \in trouble'
      <4>1. trouble' =
              trouble \cup
              {x \in {"restart"} : pub'.control # pub.control /\ pub.st # 1} \cup
              {x \in {"state repeated"} :
                 pub'.control # pub.control /\ pub.st = 1} \cup
              {x \in {"stop"} : pub'.thread = "stopping"} \cup
              {x \in {"wrap"} : pub'.control = pub.control /\ Wraps}
        BY <1>4 DEF Published
      <4>2. pub'.control # pub.control
        BY <2>3 DEF Restarts
      <4>3. "state repeated" \notin trouble'
        BY DEF Undisturbed
      <4> QED
        BY <4>1, <4>2, <4>3
    <3>3. Line # <<>> /\ Awaits(Restarted, pub, Line[Len(Line)]) =>
            Awaits(Restarted', pub', Line[Len(Line)])
      BY <2>3, <3>2 DEF Restarts, Restarted, Awaits
    <3> QED
      BY <1>1, <1>2, <2>1, <3>1, <3>3, InOrderShortened
  <2>4. ASSUME NEW f \in Frame, Sends(f), SendsState(f) \/ SendsAgain(f)
        PROVE  InOrder'
    <3>1. wire' = Append(wire, f)
      BY <2>4 DEF Sends
    <3>2. /\ Line' \in Seq(Frame) /\ Len(Line') = Len(Line) + 1
          /\ \A j \in 1 .. Len(Line) : Line'[j] = Line[j]
          /\ Line'[Len(Line) + 1] = f
      BY <2>1, <3>1, LineGrows
    <3>3. /\ Len(Line) \in Nat /\ (Line = <<>> <=> Len(Line) = 0)
          /\ \A j \in 1 .. Len(Line) : Line[j] \in Frame
      BY LineTyped
    <3>4. ASSUME Line # <<>>
          PROVE  Succeeds(Restarted', Line[Len(Line)], f)
      <4> DEFINE e == Line[Len(Line)]
      <4>1. Awaits(Restarted, pub, e) /\ e \in Frame
        BY <1>1, <3>3, <3>4 DEF InOrder
      <4> HIDE DEF e
      <4>2. /\ e.st \in Num /\ NextNum(e.st) # e.st /\ NextNum(0) = 1
        BY <4>1, FrameFields, NextNums, NumFields
      <4>3. f.control = pub.control
        BY <2>4 DEF Sends
      <4>4. Succeeds(Restarted', e, f)
        BY <1>1, <2>4, <4>1, <4>2, <4>3
           DEF Awaits, Succeeds, SendsState, SendsAgain
      <4> QED
        BY <4>4 DEF e
    <3>5. ASSUME NEW i \in 1 .. Len(Line') - 1
          PROVE  Succeeds(Restarted', Line'[i], Line'[i + 1])
      <4>1. CASE i = Len(Line)
        BY <3>2, <3>3, <3>4, <4>1
      <4>2. CASE i # Len(Line)
        <5>1. /\ i \in 1 .. Len(Line) /\ i + 1 \in 1 .. Len(Line)
              /\ i \in 1 .. Len(Line) - 1
          BY <3>2, <3>3, <4>2
        <5>2. Succeeds(Restarted, Line[i], Line[i + 1])
          BY <1>1, <5>1 DEF InOrder
        <5>3. Line'[i] = Line[i] /\ Line'[i + 1] = Line[i + 1]
          BY <3>2, <5>1
        <5> QED
          BY <1>1, <5>2, <5>3 DEF Succeeds
      <4> QED
        BY <4>1, <4>2
    <3>6. Awaits(Restarted', pub', f)
      BY <2>4 DEF Awaits, Sends
    <3>7. Line'[Len(Line')] = f
      BY <3>2
    <3> QED
      BY <1>2, <2>1, <3>5, <3>6, <3>7 DEF InOrder
  <2> QED
    BY <1>3, <2>1, <2>2, <2>3, <2>4, PublisherStep
<1>5. ASSUME NEW i \in DOMAIN wire, NEW again \in BOOLEAN, Deliver(i, again)
      PROVE  InOrder'
  <2>1. "disorder" \notin trouble'
    BY DEF Undisturbed
  <2> DEFINE m == wire[1]
  <2>2. /\ wire # <<>> /\ wire' = RemoveAt(wire, 1) /\ lastFed' = m
        /\ m \in Frame /\ Follows(stream, m, now, stream')
        /\ trouble' = trouble /\ pub' = pub
    BY <1>5, <2>1, DeliveredInOrder
  <2>3. stream'.known /\ stream'.last = m
    <3>1. CASE ~stream.known
      BY <2>2, <3>1 DEF Follows
    <3>2. CASE stream.known
      <4>1. Succeeds(Restarted, stream.last, m)
        <5>1. /\ Len(Line) = Len(wire) + 1 /\ Line[1] = stream.last
              /\ \A j \in 1 .. Len(wire) : Line[j + 1] = wire[j]
          BY <1>3, <3>2, LineFacts DEF Line
        <5>2. Len(wire) \in Nat /\ Len(wire) >= 1
          BY <2>2, LineTyped
        <5>3. Line[1 + 1] = wire[1] /\ 1 \in 1 .. Len(Line) - 1
          BY <5>1, <5>2
        <5> QED
          BY <1>1, <5>1, <5>3 DEF InOrder
      <4>2. Continues(stream.last, m) \/ m.st # stream.last.st
        BY <1>3, <2>2, <4>1, SuccessorFacts, StreamFields
      <4> QED
        BY <2>2, <3>2, <4>2 DEF Follows
    <3> QED
      BY <3>1, <3>2
  <2>4. IF stream.known THEN Shortened(1) ELSE Shortened(0)
    BY <2>2, <2>3, LineAdvances
  <2>5. Line # <<>> /\ Awaits(Restarted, pub, Line[Len(Line)]) =>
          Awaits(Restarted', pub', Line[Len(Line)])
    BY <2>2 DEF Restarted
  <2> QED
    BY <1>1, <2>2, <2>3, <2>4, <2>5, InOrderShortened
<1>6. ASSUME NEW i \in DOMAIN wire, Lose(i)
      PROVE  InOrder'
  BY <1>6 DEF Lose, Undisturbed
<1>7. CASE Supervise \/ Tick \/ UNCHANGED vars
  <2>1. /\ wire' = wire /\ pub' = pub /\ lastFed' = lastFed
        /\ stream'.known = stream.known /\ stream'.last = stream.last
    BY <1>3, <1>7, Checks DEF Supervise, Tick, vars, history
  <2>2. Shortened(0)
    BY <2>1, LineKept
  <2>3. Line # <<>> /\ Awaits(Restarted, pub, Line[Len(Line)]) =>
          Awaits(Restarted', pub', Line[Len(Line)])
    BY <1>1, <2>1 DEF Awaits
  <2> QED
    BY <1>1, <1>2, <2>1, <2>2, <2>3, InOrderShortened
<1> QED
  BY <1>4, <1>5, <1>6, <1>7 DEF Next

(***************************************************************************)
(* While nothing is late, silence is never long enough to be told of.      *)
(***************************************************************************)
LEMMA NotSilent ==
  ASSUME Typed, InTime, Untroubled
  PROVE  Check(stream, now) = stream
<1>1. stream \in GooseStream /\ now \in Nat
  BY DEF Typed, TypeOK
<1>2. stream.last.tal \in Nat /\ stream.lastSeen \in Nat
  BY <1>1, StreamFields, FrameFields
<1>3. stream.known => now <= stream.lastSeen + stream.last.tal
  BY DEF InTime
<1> DEFINE end == stream.lastSeen + stream.last.tal
<1>4. end \in Nat
  BY <1>2
<1>5. Silent(stream, now) => stream.known /\ now > end
  BY DEF Silent
<1>6. stream.known => now <= end
  BY <1>3
<1> HIDE DEF end
<1>7. ~Silent(stream, now)
  BY <1>1, <1>4, <1>5, <1>6
<1> QED
  BY <1>1, <1>7, Checks

LEMMA NextInTime ==
  ASSUME Typed, Typed', InOrder, InTime, [Next]_vars
  PROVE  InTime'
<1> SUFFICES ASSUME Untroubled' PROVE InTime'
  BY DEF InTime
<1>1. Untroubled /\ Undisturbed /\ ~Restarted
  BY TroubleStays DEF Untroubled, Undisturbed, Restarted
<1>2. /\ stream.events \subseteq {"new", "state change"} /\ ~stream.timedOut
      /\ stream.known => now <= stream.lastSeen + stream.last.tal
      /\ pub.thread # "stopping"
      /\ pub.thread = "running" /\ ~pub.changed => now <= pub.due
      /\ Line # <<>> =>
           /\ pub.thread = "running"
           /\ now <= pub.due
           /\ pub.due <= (IF wire = <<>> THEN stream.lastSeen ELSE now)
                         + Line[Len(Line)].tal
  BY <1>1 DEF InTime
<1>3. /\ stream \in GooseStream /\ wire \in Seq(Frame) /\ now \in Nat
      /\ pub \in Publisher /\ pub.due \in Nat
      /\ pub.thread \in {"none", "running", "stopping"}
  BY DEF Typed, TypeOK, Publisher
<1>4. CASE Published
  <2>1. PublisherNext /\ stream' = stream /\ now' = now
    BY <1>3, <1>4, PublisherStep DEF Published
  <2>2. pub'.control = pub.control /\ pub'.thread # "stopping"
    <3>1. trouble' =
              trouble \cup
              {x \in {"restart"} : pub'.control # pub.control /\ pub.st # 1} \cup
              {x \in {"state repeated"} :
                 pub'.control # pub.control /\ pub.st = 1} \cup
              {x \in {"stop"} : pub'.thread = "stopping"} \cup
              {x \in {"wrap"} : pub'.control = pub.control /\ Wraps}
      BY <1>4 DEF Published
    <3>2. /\ "restart" \notin trouble' /\ "state repeated" \notin trouble'
          /\ "stop" \notin trouble'
      BY DEF Untroubled
    <3> QED
      BY <3>1, <3>2
  <2>3. CASE Waits
    <3>1. Line' = Line /\ wire' = wire
      BY <2>1, <2>3, LineKept DEF Waits
    <3>2. pub'.thread \in {"none", "running", "stopping"}
      BY DEF Typed, TypeOK, Publisher
    <3>3. /\ pub'.due = pub.due
          /\ pub'.thread = "running" /\ ~pub'.changed =>
               pub.thread = "running" /\ ~pub.changed
          /\ pub.thread = "running" => pub'.thread = "running"
      BY <2>2, <2>3, <3>2 DEF Waits
    <3> QED
      BY <1>2, <2>1, <2>2, <3>1, <3>3 DEF InTime
  <2>4. CASE Restarts
    BY <2>2, <2>4 DEF Restarts
  <2>5. ASSUME NEW f \in Frame, Sends(f), SendsState(f) \/ SendsAgain(f)
        PROVE  InTime'
    <3>1. wire' = Append(wire, f) /\ pub.thread = "running"
          /\ pub'.thread = "running"
      BY <1>2, <1>3, <2>5 DEF Sends
    <3>2. Line'[Len(Line')] = f
      BY <2>1, <3>1, LineGrows
    <3>3. wire' # <<>>
      BY <1>3, <3>1, AppendProperties, EmptySeq
    <3>4. f.tal \in Nat /\ pub'.due \in Nat
      BY FrameFields DEF Typed, TypeOK, Publisher
    <3>5. now <= pub'.due /\ pub'.due <= now + f.tal
      <4>1. CASE SendsState(f)
        BY <1>3, <3>4, <4>1 DEF SendsState
      <4>2. CASE SendsAgain(f)
        <5>1. /\ now <= pub.due /\ pub.due <= now
              /\ pub'.due > pub.due /\ pub'.due <= pub.due + f.tal
          BY <1>2, <4>2 DEF SendsAgain
        <5> QED
          BY <1>3, <3>4, <5>1
      <4> QED
        BY <2>5, <4>1, <4>2
    <3> QED
      BY <1>2, <2>1, <2>2, <3>1, <3>2, <3>3, <3>5 DEF InTime
  <2> QED
    BY <1>3, <2>1, <2>3, <2>4, <2>5, PublisherStep
<1>5. ASSUME NEW i \in DOMAIN wire, NEW again \in BOOLEAN, Deliver(i, again)
      PROVE  InTime'
  <2>1. "disorder" \notin trouble'
    BY DEF Untroubled
  <2> DEFINE m == wire[1]
  <2>2. /\ wire # <<>> /\ wire' = RemoveAt(wire, 1) /\ lastFed' = m
        /\ m \in Frame /\ Follows(stream, m, now, stream')
        /\ trouble' = trouble /\ pub' = pub /\ now' = now /\ i = 1
    BY <1>5, <2>1, DeliveredInOrder
  <2>3. stream' = Feed(stream, m, now)
    BY <1>1, <1>5, <2>2, NotSilent DEF Deliver
  <2>4. Tells(stream, m, stream')
    BY <1>3, <2>2, <2>3, Feeds
  <2>5. Len(wire) \in Nat /\ Len(wire) >= 1
    BY <2>2, LineTyped
  <2>6. stream.known => Succeeds(Restarted, stream.last, m)
    <3> SUFFICES ASSUME stream.known PROVE Succeeds(Restarted, stream.last, m)
      OBVIOUS
    <3>1. /\ Len(Line) = Len(wire) + 1 /\ Line[1] = stream.last
          /\ \A j \in 1 .. Len(wire) : Line[j + 1] = wire[j]
      BY <1>3, LineFacts DEF Line
    <3>2. Line[1 + 1] = wire[1] /\ 1 \in 1 .. Len(Line) - 1
      BY <2>5, <3>1
    <3> QED
      BY <1>1, <3>1, <3>2 DEF InOrder
  <2>7. stream.known =>
          /\ m.control = stream.last.control
          /\ \/ /\ Continues(stream.last, m) /\ SqNext(stream.last.sq, m.sq)
                /\ m.values = stream.last.values
             \/ m.st # stream.last.st /\ StAhead(stream.last.st, m.st) # 0
    BY <1>1, <1>3, <2>2, <2>6, SuccessorFacts, StreamFields
  <2>8. stream'.events \subseteq {"new", "state change"}
    BY <1>2, <2>4, <2>7 DEF Tells
  <2>9. /\ stream'.known /\ stream'.last = m /\ stream'.lastSeen = now
        /\ ~stream'.timedOut
    BY <2>2, <2>7 DEF Follows
  <2>10. m.tal \in Nat
    BY <2>2, FrameFields
  <2>11. ASSUME NEW k \in {0, 1}, Shortened(k), Line' # <<>>
         PROVE  Line # <<>> /\ Line'[Len(Line')] = Line[Len(Line)]
    <3>1. /\ Len(Line) \in Nat /\ Line \in Seq(Frame)
          /\ (Line = <<>> <=> Len(Line) = 0)
      BY LineTyped
    <3>2. /\ Len(Line') \in Nat /\ Len(Line') = Len(Line) - k
          /\ (Line' = <<>> <=> Len(Line') = 0)
          /\ \A j \in 1 .. Len(Line') : Line'[j] = Line[j + k]
      BY <2>11, LenProperties, EmptySeq DEF Shortened
    <3>3. Len(Line') \in 1 .. Len(Line') /\ Len(Line') + k = Len(Line)
      BY <2>11, <3>1, <3>2
    <3> QED
      BY <3>1, <3>2, <3>3
  <2>12. IF stream.known THEN Shortened(1) ELSE Shortened(0)
    BY <2>2, <2>9, LineAdvances
  <2>13. Line' # <<>> => Line # <<>> /\ Line'[Len(Line')] = Line[Len(Line)]
    BY <2>11, <2>12
  <2>14. (IF wire' = <<>> THEN stream'.lastSeen ELSE now') = now
    BY <2>2, <2>9
  <2>15. Line' # <<>> =>
           /\ pub.thread = "running" /\ now <= pub.due
           /\ pub.due <= now + Line'[Len(Line')].tal
    BY <1>2, <2>2, <2>13
  <2>16. now <= now + m.tal
    BY <1>3, <2>10
  <2> HIDE DEF m
  <2> QED
    BY <1>2, <2>2, <2>8, <2>9, <2>14, <2>15, <2>16 DEF InTime
<1>6. ASSUME NEW i \in DOMAIN wire, Lose(i)
      PROVE  InTime'
  BY <1>6 DEF Lose, Untroubled
<1>7. CASE Supervise \/ UNCHANGED vars
  <2>1. /\ wire' = wire /\ pub' = pub /\ now' = now /\ stream' = stream
    BY <1>1, <1>7, NotSilent DEF Supervise, vars
  <2>2. Line' = Line
    BY <2>1 DEF Line
  <2> QED
    BY <1>2, <2>1, <2>2 DEF InTime
<1>8. CASE Tick
  <2>1. /\ wire' = wire /\ pub' = pub /\ now' = now + 1 /\ stream' = stream
        /\ ~Overdue /\ wire = <<>>
    BY <1>8 DEF Tick, Untroubled
  <2>2. Line' = Line
    BY <2>1 DEF Line
  <2>3. pub.thread = "running" => ~pub.changed /\ now + 1 <= pub.due
    BY <1>3, <2>1 DEF Overdue
  <2>4. stream.known => Line # <<>> /\ Line[Len(Line)] = stream.last
    <3>1. Len(wire) = 0
      BY <2>1, LineTyped
    <3> SUFFICES ASSUME stream.known
                 PROVE  Line # <<>> /\ Line[Len(Line)] = stream.last
      OBVIOUS
    <3>2. Len(Line) = Len(wire) + 1 /\ Line[1] = stream.last
      BY <1>3, LineFacts DEF Line
    <3>3. Len(Line) = 1
      BY <3>1, <3>2
    <3>4. Line # <<>>
      BY <3>3, LineTyped
    <3> QED
      BY <3>2, <3>3, <3>4
  <2>5. stream.last.tal \in Nat /\ stream.lastSeen \in Nat
    BY <1>3, StreamFields, FrameFields
  <2>6. stream.known => now + 1 <= stream.lastSeen + stream.last.tal
    <3> SUFFICES ASSUME stream.known
                 PROVE  now + 1 <= stream.lastSeen + stream.last.tal
      OBVIOUS
    <3> DEFINE end == stream.lastSeen + stream.last.tal
    <3>1. end \in Nat
      BY <2>5
    <3>2. pub.due <= end /\ pub.thread = "running"
      BY <1>2, <2>1, <2>4
    <3> HIDE DEF end
    <3>3. now + 1 <= end
      BY <1>3, <2>3, <3>1, <3>2
    <3> QED
      BY <3>3 DEF end
  <2>7. Line # <<>> => now + 1 <= pub.due
    BY <1>2, <2>3
  <2> QED
    BY <1>2, <2>1, <2>2, <2>3, <2>6, <2>7 DEF InTime
<1> QED
  BY <1>4, <1>5, <1>6, <1>7, <1>8 DEF Next

(***************************************************************************)
(* The line is empty at first.                                             *)
(***************************************************************************)
LEMMA InitLine == Init => InOrder /\ InTime
<1> SUFFICES ASSUME Init PROVE InOrder /\ InTime
  OBVIOUS
<1>1. /\ wire = <<>> /\ ~stream.known /\ stream.events = {}
      /\ ~stream.timedOut /\ pub.thread = "none"
  BY DEF Init, PublisherInit, Unknown, New
<1>2. Typed
  BY InitTyped
<1>3. Len(Line) = 0 /\ Line = <<>>
  <2>1. Len(Line) = Len(wire) + 0
    BY <1>1, <1>2, LineFacts DEF Line, Typed, TypeOK
  <2> QED
    BY <1>1, <1>2, <2>1, LineTyped
<1> QED
  BY <1>1, <1>3 DEF InOrder, InTime

LEMMA AlwaysInOrder == Spec => [](Typed /\ InOrder /\ InTime)
<1>1. Init => Typed /\ InOrder /\ InTime
  BY InitTyped, InitLine
<1>2. Typed /\ InOrder /\ InTime /\ [Next]_vars => (Typed /\ InOrder /\ InTime)'
  BY NextTyped, NextInOrder, NextInTime
<1> QED
  BY <1>1, <1>2, PTL DEF Spec

(***************************************************************************)
(* What arrives whole and in time raises no alarm: the numbers of the      *)
(* publisher and those the supervision expects agree, where they wrap too, *)
(* and a repetition comes within the time allowed to live of the frame     *)
(* before.                                                                 *)
(***************************************************************************)
THEOREM AlarmsAreTrue == Spec => []NoFalseAlarm
BY AlwaysInOrder, PTL DEF InTime, Untroubled, NoFalseAlarm

----------------------------------------------------------------------------
(* What is missed is what is lost                                          *)

(***************************************************************************)
(* Until a number wraps, a frame sent is the next of its state or the      *)
(* first of the next.                                                      *)
(***************************************************************************)
LEMMA RegularPublished ==
  ASSUME Typed, Published, Regular'
  PROVE  /\ Regular /\ (Orderly' <=> Orderly) /\ stream' = stream
         /\ UNCHANGED history
         /\ \/ wire' = wire /\ pub'.st = pub.st /\ pub'.sq = pub.sq
            \/ \E f \in Frame :
                  /\ wire' = Append(wire, f)
                  /\ f.sq < NumMax /\ pub'.st = f.st /\ pub'.sq = f.sq + 1
                  /\ \/ f.st = pub.st /\ f.sq = pub.sq
                     \/ f.st = pub.st + 1 /\ f.sq = 0
<1>1. /\ PublisherNext /\ stream' = stream /\ UNCHANGED history
      /\ trouble' =
            trouble \cup
            {x \in {"restart"} : pub'.control # pub.control /\ pub.st # 1} \cup
            {x \in {"state repeated"} :
               pub'.control # pub.control /\ pub.st = 1} \cup
            {x \in {"stop"} : pub'.thread = "stopping"} \cup
            {x \in {"wrap"} : pub'.control = pub.control /\ Wraps}
  BY DEF Published
<1>2. /\ "restart" \notin trouble' /\ "state repeated" \notin trouble'
      /\ "wrap" \notin trouble'
  BY DEF Regular
<1>3. pub'.control = pub.control /\ ~Wraps
  BY <1>1, <1>2
<1>4. Regular /\ (Orderly' <=> Orderly)
  BY <1>1, <1>3 DEF Regular, Orderly
<1>5. pub \in Publisher /\ now \in Nat
  BY DEF Typed, TypeOK
<1>6. CASE Waits
  BY <1>1, <1>4, <1>6 DEF Waits
<1>7. CASE Restarts
  BY <1>3, <1>7 DEF Restarts
<1>8. ASSUME NEW f \in Frame, Sends(f), SendsState(f) \/ SendsAgain(f)
      PROVE  /\ wire' = Append(wire, f)
             /\ f.sq < NumMax /\ pub'.st = f.st /\ pub'.sq = f.sq + 1
             /\ \/ f.st = pub.st /\ f.sq = pub.sq
                \/ f.st = pub.st + 1 /\ f.sq = 0
  <2>1. /\ wire' = Append(wire, f) /\ pub'.st = f.st /\ pub'.sq = NextNum(f.sq)
    BY <1>8 DEF Sends
  <2>2. /\ f.st \in Num /\ f.sq \in Num /\ pub.st \in Num /\ pub.sq \in Num
    BY <1>5, FrameFields DEF Publisher
  <2>3. /\ pub'.st >= pub.st
        /\ pub'.st = pub.st => pub'.sq >= pub.sq
    BY <1>3, <2>1, <2>2, NextNums, NumFields DEF Wraps
  <2>4. /\ NextNum(pub.st) = IF pub.st = NumMax THEN 1 ELSE pub.st + 1
        /\ NextNum(f.sq) = IF f.sq = NumMax THEN 1 ELSE f.sq + 1
    BY <2>2, NextNums
  <2>5. CASE SendsState(f)
    <3>1. f.st = NextNum(pub.st) /\ f.sq = 0
      BY <2>5 DEF SendsState
    <3> QED
      BY <2>1, <2>2, <2>3, <2>4, <3>1, NumFields
  <2>6. CASE SendsAgain(f)
    <3>1. f.st = pub.st /\ f.sq = pub.sq
      BY <2>6 DEF SendsAgain
    <3> QED
      BY <2>1, <2>2, <2>3, <2>4, <3>1, NumFields
  <2> QED
    BY <1>8, <2>5, <2>6
<1> QED
  BY <1>1, <1>4, <1>5, <1>6, <1>7, <1>8, PublisherStep

\* From s, m has led to r.
Advanced(s, m, r) ==
    /\ r \in GooseStream /\ r.known = TRUE /\ Behind(r, m.st, m.sq)
    /\ \/ /\ s.known /\ IsLate(s.last, m) /\ r.last = s.last
          /\ m.st = s.last.st /\ m.sq <= s.last.sq
       \/ /\ r.last = m
          /\ s.known => Precedes(s.last, m)
          /\ s.known /\ m.st = s.last.st => Continues(s.last, m)

(***************************************************************************)
(* What a message received makes of the stream: it is behind it already,   *)
(* or becomes what it is at.                                               *)
(***************************************************************************)
LEMMA Advances ==
  ASSUME NEW s \in GooseStream, NEW m \in Frame, NEW t \in Nat, NEW r,
         Follows(s, m, t, r),
         s.known => s.last.sq < NumMax /\ s.last.st <= m.st
  PROVE  Advanced(s, m, r)
<1> USE DEF Advanced
<1>1. /\ m.st \in Num /\ m.sq \in Num /\ s.last.st \in Num /\ s.last.sq \in Num
  BY FrameFields, StreamFields
<1>2. r \in GooseStream /\ r.known = TRUE
  BY DEF Follows
<1>3. CASE ~s.known
  <2>1. r.last = m
    BY <1>3 DEF Follows
  <2> QED
    BY <1>1, <1>2, <1>3, <2>1, NumFields DEF Behind
<1>4. CASE s.known /\ IsLate(s.last, m)
  <2>1. r.last = s.last /\ m.st = s.last.st
    BY <1>4 DEF Follows, IsLate
  <2>2. m.sq <= s.last.sq
    BY <1>1, <1>4, NumFields DEF IsLate
  <2> QED
    BY <1>1, <1>2, <1>4, <2>1, <2>2, NumFields DEF Behind
<1>5. CASE s.known /\ ~IsLate(s.last, m)
  <2>1. r.last = m
    BY <1>5 DEF Follows, Continues
  <2>2. Precedes(s.last, m)
    BY <1>1, <1>5, NumFields DEF IsLate, SqNext, Precedes
  <2>3. m.st = s.last.st => Continues(s.last, m)
    BY <1>5 DEF Continues
  <2> QED
    BY <1>1, <1>2, <2>1, <2>2, <2>3, NumFields DEF Behind
<1> QED
  BY <1>3, <1>4, <1>5

(***************************************************************************)
(* A frame taken from the wire leaves the others there, in their order.    *)
(***************************************************************************)
LEMMA RemovedOnWire ==
  ASSUME NEW w \in Seq(Frame), NEW i \in 1 .. Len(w)
  PROVE  LET r == RemoveAt(w, i)
         IN  /\ Ascending(w) => Ascending(r)
             /\ \A j \in DOMAIN r : \E k \in DOMAIN w : r[j] = w[k]
             /\ \A st, sq : OnWire(w, st, sq) =>
                  OnWire(r, st, sq) \/ (w[i].st = st /\ w[i].sq = sq)
             /\ \A st, sq : OnWire(r, st, sq) => OnWire(w, st, sq)
             /\ Ascending(w) => ~OnWire(r, w[i].st, w[i].sq)
<1> DEFINE r == RemoveAt(w, i)
           at(j) == IF j < i THEN j ELSE j + 1
<1>1. /\ r \in Seq(Frame) /\ Len(r) = Len(w) - 1
      /\ \A j \in 1 .. Len(r) : r[j] = IF j < i THEN w[j] ELSE w[j + 1]
  BY Removed
<1>2. /\ Len(w) \in Nat /\ DOMAIN w = 1 .. Len(w) /\ Len(r) \in Nat
      /\ DOMAIN r = 1 .. Len(r) /\ i \in Nat
  BY <1>1, LenProperties
<1> HIDE DEF r
<1>3. \A j \in DOMAIN r : at(j) \in DOMAIN w /\ r[j] = w[at(j)]
  BY <1>1, <1>2
<1>4. Ascending(w) => Ascending(r)
  <2> SUFFICES ASSUME Ascending(w), NEW j \in DOMAIN r, NEW k \in DOMAIN r, j < k
               PROVE  Precedes(r[j], r[k])
    BY DEF Ascending
  <2>1. at(j) < at(k)
    BY <1>2
  <2>2. at(j) \in DOMAIN w /\ at(k) \in DOMAIN w /\ r[j] = w[at(j)] /\ r[k] = w[at(k)]
    BY <1>3
  <2>3. Precedes(w[at(j)], w[at(k)])
    BY <2>1, <2>2 DEF Ascending
  <2> QED
    BY <2>2, <2>3
<1>5. \A k \in DOMAIN w : k # i => \E j \in DOMAIN r : r[j] = w[k]
  <2> SUFFICES ASSUME NEW k \in DOMAIN w, k # i
               PROVE  \E j \in DOMAIN r : r[j] = w[k]
    OBVIOUS
  <2> DEFINE j == IF k < i THEN k ELSE k - 1
  <2>1. j \in DOMAIN r /\ at(j) = k
    BY <1>1, <1>2
  <2> QED
    BY <1>3, <2>1
<1>8. Ascending(w) => ~OnWire(r, w[i].st, w[i].sq)
  <2> SUFFICES ASSUME Ascending(w), NEW j \in DOMAIN r,
                      r[j].st = w[i].st, r[j].sq = w[i].sq
               PROVE  FALSE
    BY DEF OnWire
  <2>1. at(j) \in DOMAIN w /\ r[j] = w[at(j)] /\ at(j) # i /\ i \in DOMAIN w
    BY <1>2, <1>3
  <2>2. w[i].st \in Nat /\ w[i].sq \in Nat
    BY <2>1, ElementOfSeq, FrameFields, NumFields
  <2>3. at(j) < i \/ i < at(j)
    BY <1>2, <2>1
  <2>4. Precedes(w[at(j)], w[i]) \/ Precedes(w[i], w[at(j)])
    BY <2>1, <2>3 DEF Ascending
  <2> QED
    BY <2>1, <2>2, <2>4 DEF Precedes
<1> HIDE DEF at
<1>6. \A st, sq : OnWire(w, st, sq) =>
                    OnWire(r, st, sq) \/ (w[i].st = st /\ w[i].sq = sq)
  BY <1>5 DEF OnWire
<1>7. \A st, sq : OnWire(r, st, sq) => OnWire(w, st, sq)
  BY <1>3 DEF OnWire
<1> QED
  BY <1>3, <1>4, <1>6, <1>7, <1>8 DEF r

LEMMA RegularDelivered ==
  ASSUME Typed, Numbered, LossCounted, LateAwaited, NEW i \in DOMAIN wire,
         NEW again \in BOOLEAN, Deliver(i, again), Regular'
  PROVE  /\ Regular /\ (Orderly' => Orderly /\ i = 1 /\ ~again)
         /\ Orderly \/ Lossless
         /\ i \in 1 .. Len(wire) /\ wire[i] \in Frame
         /\ Follows(stream, wire[i], now, stream')
         /\ stream.known =>
              stream.last.sq < NumMax /\ stream.last.st <= wire[i].st
<1>1. trouble' = IF again \/ i > 1 THEN trouble \cup {"disorder"} ELSE trouble
  BY DEF Deliver
<1>2. i \in 1 .. Len(wire) /\ Len(wire) \in Nat /\ stream \in GooseStream
  BY LenProperties DEF Typed, TypeOK
<1>3. Regular /\ (Orderly' => Orderly /\ i = 1 /\ ~again)
  BY <1>1, <1>2 DEF Regular, Orderly
<1>4. Orderly \/ Lossless
  BY <1>3 DEF Regular, Orderly, Lossless
<1>5. wire[i] \in Frame /\ Follows(stream, wire[i], now, stream')
  BY Delivered DEF Typed
<1>6. ASSUME stream.known
      PROVE  stream.last.sq < NumMax /\ stream.last.st <= wire[i].st
  <2>1. stream.last.sq < NumMax
    BY <1>3, <1>6 DEF Numbered
  <2>2. stream.last.st <= wire[i].st
    <3>1. CASE Orderly
      <4>1. Precedes(stream.last, wire[i])
        BY <1>6, <3>1 DEF LossCounted
      <4>2. stream.last.st \in Nat /\ wire[i].st \in Nat
        BY <1>2, <1>5, StreamFields, FrameFields, NumFields
      <4> QED
        BY <4>1, <4>2 DEF Precedes
    <3>2. CASE Lossless
      BY <1>6, <3>2 DEF LateAwaited
    <3> QED
      BY <1>4, <3>1, <3>2
  <2> QED
    BY <2>1, <2>2
<1> QED
  BY <1>2, <1>3, <1>4, <1>5, <1>6

(***************************************************************************)
(* What is behind the stream stays behind it.                              *)
(***************************************************************************)
LEMMA StaysBehind ==
  ASSUME NEW s \in GooseStream, NEW r \in GooseStream, r.known,
         r.last = s.last \/ (s.known => Precedes(s.last, r.last)),
         NEW st \in Num, NEW sq \in Num, Behind(s, st, sq)
  PROVE  Behind(r, st, sq)
<1>1. /\ s.last.st \in Num /\ s.last.sq \in Num
      /\ r.last.st \in Num /\ r.last.sq \in Num
  BY StreamFields, FrameFields
<1> QED
  BY <1>1, NumFields DEF Behind, Precedes

LEMMA NumberedFewer ==
  ASSUME Typed, Typed', Numbered, Regular, pub' = pub, Ascending(wire'),
         \A j \in DOMAIN wire' : \E k \in DOMAIN wire : wire'[j] = wire[k],
         stream'.known => Precedes(stream'.last, pub) /\ stream'.last.sq < NumMax,
         \A st, sq \in Num : Accounted(lost, wire, stream, st, sq) =>
                               Accounted(lost', wire', stream', st, sq),
         \A st, sq \in Num :
           <<st, sq>> \in lost' \/ OnWire(wire', st, sq) =>
             <<st, sq>> \in lost \/ OnWire(wire, st, sq)
  PROVE  Numbered'
<1>1. \A j \in DOMAIN wire' : Precedes(wire'[j], pub) /\ wire'[j].sq < NumMax
  BY DEF Numbered
<1>2. pub.st \in Num /\ 0 \in Num
  BY NumFields DEF Typed, TypeOK, Publisher
<1>3. \A sq \in Num : sq < pub.sq => Accounted(lost', wire', stream', pub.st, sq)
  BY <1>2 DEF Numbered
<1>4. \A st, sq, q \in Num :
        (<<st, sq>> \in lost' \/ OnWire(wire', st, sq)) /\ q < sq =>
          Accounted(lost', wire', stream', st, q)
  BY DEF Numbered
<1>5. \A st \in Num :
        1 <= st /\ st <= pub.st => Accounted(lost', wire', stream', st, 0)
  BY <1>2 DEF Numbered
<1> QED
  BY <1>1, <1>3, <1>4, <1>5 DEF Numbered

(***************************************************************************)
(* What is sent is the next number: those before are accounted for.        *)
(***************************************************************************)
LEMMA NumberedMore ==
  ASSUME Typed, Numbered, Regular, stream' = stream, lost' = lost,
         NEW f \in Frame, wire' = Append(wire, f),
         f.sq < NumMax, pub'.st = f.st, pub'.sq = f.sq + 1,
         \/ f.st = pub.st /\ f.sq = pub.sq
         \/ f.st = pub.st + 1 /\ f.sq = 0
  PROVE  /\ Numbered'
         /\ stream.known => Precedes(stream.last, f)
         /\ \A st, sq : OnWire(wire, st, sq) => OnWire(wire', st, sq)
<1>1. /\ wire \in Seq(Frame) /\ Len(wire) \in Nat /\ DOMAIN wire = 1 .. Len(wire)
      /\ stream \in GooseStream
  BY LenProperties DEF Typed, TypeOK
<1>2. /\ pub.st \in Num /\ pub.sq \in Num /\ f.st \in Num /\ f.sq \in Num
      /\ stream.last.st \in Num /\ stream.last.sq \in Num
  BY <1>1, FrameFields, StreamFields DEF Typed, TypeOK, Publisher
<1>3. /\ DOMAIN wire' = 1 .. Len(wire) + 1
      /\ \A j \in DOMAIN wire : wire'[j] = wire[j]
      /\ wire'[Len(wire) + 1] = f
  BY <1>1, AppendProperties, LenProperties
<1>4. \A j \in DOMAIN wire :
        /\ wire[j].st \in Num /\ wire[j].sq \in Num /\ Precedes(wire[j], pub)
        /\ wire[j].sq < NumMax
  BY <1>1, ElementOfSeq, FrameFields DEF Numbered
<1>5. ASSUME NEW e, e.st \in Num, e.sq \in Num, Precedes(e, pub)
      PROVE  Precedes(e, f) /\ Precedes(e, pub')
  BY <1>2, <1>5, NumFields DEF Precedes
<1>6. Precedes(f, pub')
  BY <1>2, NumFields DEF Precedes
<1>7. Ascending(wire')
  <2> SUFFICES ASSUME NEW i \in DOMAIN wire', NEW j \in DOMAIN wire', i < j
               PROVE  Precedes(wire'[i], wire'[j])
    BY DEF Ascending
  <2>1. CASE j = Len(wire) + 1
    BY <1>1, <1>3, <1>4, <1>5, <2>1
  <2>2. CASE j # Len(wire) + 1
    BY <1>1, <1>3, <2>2 DEF Numbered, Ascending
  <2> QED
    BY <2>1, <2>2
<1>8. \A j \in DOMAIN wire' : Precedes(wire'[j], pub') /\ wire'[j].sq < NumMax
  BY <1>1, <1>3, <1>4, <1>5, <1>6
<1>9. stream.known => /\ Precedes(stream.last, f) /\ Precedes(stream.last, pub')
                      /\ stream.last.sq < NumMax
  BY <1>2, <1>5 DEF Numbered
<1>10. \A st, sq : OnWire(wire, st, sq) => OnWire(wire', st, sq)
  BY <1>1, <1>3 DEF OnWire
<1>11. \A st, sq : OnWire(wire', st, sq) =>
                     OnWire(wire, st, sq) \/ (st = f.st /\ sq = f.sq)
  BY <1>1, <1>3 DEF OnWire
<1>12. OnWire(wire', f.st, f.sq)
  BY <1>1, <1>3 DEF OnWire
<1>13. \A st, sq : Accounted(lost, wire, stream, st, sq) =>
                     Accounted(lost', wire', stream', st, sq)
  BY <1>10 DEF Accounted
<1>14. \A q \in Num : q < f.sq => Accounted(lost', wire', stream', f.st, q)
  BY <1>2, <1>13, NumFields DEF Numbered
<1>15. \A sq \in Num : sq < pub'.sq =>
                         Accounted(lost', wire', stream', pub'.st, sq)
  BY <1>2, <1>12, <1>14, NumFields DEF Accounted
<1>16. \A st, sq, q \in Num :
         (<<st, sq>> \in lost' \/ OnWire(wire', st, sq)) /\ q < sq =>
           Accounted(lost', wire', stream', st, q)
  BY <1>11, <1>13, <1>14 DEF Numbered
<1>17. \A st \in Num :
         1 <= st /\ st <= pub'.st => Accounted(lost', wire', stream', st, 0)
  <2> SUFFICES ASSUME NEW st \in Num, 1 <= st, st <= pub'.st
               PROVE  Accounted(lost', wire', stream', st, 0)
    OBVIOUS
  <2>1. CASE st <= pub.st
    BY <1>13, <2>1 DEF Numbered
  <2>2. CASE st = f.st /\ f.sq = 0
    BY <1>12, <2>2 DEF Accounted
  <2> QED
    BY <1>2, <2>1, <2>2, NumFields
<1> QED
  BY <1>7, <1>8, <1>9, <1>10, <1>15, <1>16, <1>17 DEF Numbered

LEMMA NextNumbered ==
  ASSUME Typed, Typed', Numbered, LossCounted, LateAwaited, [Next]_vars
  PROVE  Numbered'
<1> SUFFICES ASSUME Regular' PROVE Numbered'
  BY DEF Numbered
<1>1. /\ stream \in GooseStream /\ wire \in Seq(Frame) /\ now \in Nat
      /\ stream' \in GooseStream
  BY DEF Typed, TypeOK
<1>2. CASE Published
  <2>1. ASSUME wire' = wire, pub'.st = pub.st, pub'.sq = pub.sq,
               stream' = stream, lost' = lost, Regular
        PROVE  Numbered'
    BY <2>1 DEF Numbered, Precedes
  <2> QED
    BY <1>2, <2>1, RegularPublished, NumberedMore DEF history
<1>3. ASSUME NEW i \in DOMAIN wire, NEW again \in BOOLEAN, Deliver(i, again)
      PROVE  Numbered'
  <2> DEFINE m == wire[i]
  <2>1. /\ Regular /\ i \in 1 .. Len(wire) /\ m \in Frame
        /\ Follows(stream, m, now, stream')
        /\ stream.known => stream.last.sq < NumMax /\ stream.last.st <= m.st
    BY <1>3, RegularDelivered
  <2>2. /\ pub' = pub /\ lost' = lost
        /\ wire' = IF again THEN wire ELSE RemoveAt(wire, i)
    BY <1>3 DEF Deliver
  <2>3. m = wire[i]
    OBVIOUS
  <2>4. Precedes(m, pub) /\ m.sq < NumMax
    BY <2>1 DEF Numbered
  <2> HIDE DEF m
  <2>5. /\ stream'.known /\ Behind(stream', m.st, m.sq)
        /\ \/ stream.known /\ stream'.last = stream.last
           \/ stream'.last = m /\ (stream.known => Precedes(stream.last, m))
    <3>1. Advanced(stream, m, stream')
      BY <1>1, <2>1, Advances
    <3> QED
      BY <3>1 DEF Advanced
  <2>6. Precedes(stream'.last, pub) /\ stream'.last.sq < NumMax
    BY <2>1, <2>4, <2>5 DEF Numbered
  <2>7. \A st, sq \in Num : Behind(stream, st, sq) => Behind(stream', st, sq)
    BY <1>1, <2>5, StaysBehind
  <2>8. /\ Ascending(wire')
        /\ \A j \in DOMAIN wire' : \E k \in DOMAIN wire : wire'[j] = wire[k]
        /\ \A st, sq : OnWire(wire, st, sq) =>
             OnWire(wire', st, sq) \/ (m.st = st /\ m.sq = sq)
        /\ \A st, sq : OnWire(wire', st, sq) => OnWire(wire, st, sq)
    <3>1. Ascending(wire)
      BY <2>1 DEF Numbered
    <3>2. CASE again
      BY <2>2, <3>1, <3>2
    <3>3. CASE ~again
      BY <1>1, <2>1, <2>2, <2>3, <3>1, <3>3, RemovedOnWire
    <3> QED
      BY <3>2, <3>3
  <2>9. \A st, sq \in Num : Accounted(lost, wire, stream, st, sq) =>
                              Accounted(lost', wire', stream', st, sq)
    BY <2>2, <2>5, <2>7, <2>8 DEF Accounted
  <2> QED
    BY <2>1, <2>2, <2>6, <2>8, <2>9, NumberedFewer
<1>4. ASSUME NEW i \in DOMAIN wire, Lose(i)
      PROVE  Numbered'
  <2>1. /\ pub' = pub /\ stream' = stream /\ wire' = RemoveAt(wire, i)
        /\ lost' = Note(lost, wire[i]) /\ trouble' = trouble \cup {"loss"}
    BY <1>4 DEF Lose
  <2>2. Orderly /\ Regular
    BY <2>1 DEF Regular, Orderly
  <2>3. lost' = lost \cup {<<wire[i].st, wire[i].sq>>}
    BY <2>1, <2>2 DEF Note, Number
  <2>4. i \in 1 .. Len(wire) /\ wire[i] \in Frame
    BY <1>1, LenProperties, ElementOfSeq
  <2>5. /\ Ascending(wire')
        /\ \A j \in DOMAIN wire' : \E k \in DOMAIN wire : wire'[j] = wire[k]
        /\ \A st, sq : OnWire(wire, st, sq) =>
             OnWire(wire', st, sq) \/ (wire[i].st = st /\ wire[i].sq = sq)
        /\ \A st, sq : OnWire(wire', st, sq) => OnWire(wire, st, sq)
    BY <1>1, <2>1, <2>2, <2>4, RemovedOnWire DEF Numbered
  <2>6. \A st, sq \in Num : Accounted(lost, wire, stream, st, sq) =>
                              Accounted(lost', wire', stream', st, sq)
    BY <2>1, <2>3, <2>5 DEF Accounted
  <2>7. OnWire(wire, wire[i].st, wire[i].sq)
    BY DEF OnWire
  <2>8. \A st, sq \in Num :
          <<st, sq>> \in lost' \/ OnWire(wire', st, sq) =>
             <<st, sq>> \in lost \/ OnWire(wire, st, sq)
    BY <2>3, <2>5, <2>7
  <2>9. stream'.known => Precedes(stream'.last, pub) /\ stream'.last.sq < NumMax
    BY <2>1, <2>2 DEF Numbered
  <2> QED
    BY <2>1, <2>2, <2>5, <2>6, <2>8, <2>9, NumberedFewer
<1>5. CASE Supervise \/ Tick \/ UNCHANGED vars
  <2>1. /\ wire' = wire /\ pub' = pub /\ lost' = lost /\ Regular
        /\ stream'.known = stream.known /\ stream'.last = stream.last
    BY <1>1, <1>5, Checks DEF Supervise, Tick, vars, history, Regular
  <2> QED
    BY <2>1 DEF Numbered, Accounted, Behind
<1> QED
  BY <1>2, <1>3, <1>4, <1>5 DEF Next

(***************************************************************************)
(* A block of numbers or of states that is added to those counted.         *)
(***************************************************************************)
LEMMA CountMore ==
  ASSUME NEW S, IsFiniteSet(S), NEW T, IsFiniteSet(T), S \cap T = {}
  PROVE  Cardinality(S \cup T) = Cardinality(S) + Cardinality(T)
<1>1. Cardinality(S) \in Nat /\ Cardinality(T) \in Nat /\ Cardinality({}) = 0
  BY FS_EmptySet, FS_CardinalityType
<1>2. Cardinality(S \cap T) = 0
  BY <1>1, Zenon
<1>3. Cardinality(S \cup T) =
        Cardinality(S) + Cardinality(T) - Cardinality(S \cap T)
  BY FS_Union, Zenon
<1> QED
  BY <1>1, <1>2, <1>3

LEMMA CountBlock ==
  ASSUME NEW a \in Nat, NEW b \in Nat, a < b
  PROVE  /\ IsFiniteSet(a + 1 .. b - 1)
         /\ Cardinality(a + 1 .. b - 1) = b - a - 1
         /\ \A st : /\ IsFiniteSet({st} \X (a + 1 .. b - 1))
                   /\ Cardinality({st} \X (a + 1 .. b - 1)) = b - a - 1
<1> DEFINE c == a + 1
           d == b - 1
           I == c .. d
<1>1. c \in Int /\ d \in Int /\ ~(c > d + 1) /\ d - c + 1 = b - a - 1
      /\ (c > d => b - a - 1 = 0) /\ b - a - 1 \in Nat
  OBVIOUS
<1> HIDE DEF c, d
<1>2. IsFiniteSet(I) /\ Cardinality(I) = IF c > d THEN 0 ELSE d - c + 1
  BY <1>1, FS_Interval
<1> HIDE DEF I
<1>3. IsFiniteSet(I) /\ Cardinality(I) = b - a - 1
  BY <1>1, <1>2
<1>4. ASSUME NEW st
      PROVE  IsFiniteSet({st} \X I) /\ Cardinality({st} \X I) = b - a - 1
  <2>1. IsFiniteSet({st}) /\ Cardinality({st}) = 1
    BY FS_Singleton
  <2>2. /\ IsFiniteSet({st} \X I)
        /\ Cardinality({st} \X I) = Cardinality({st}) * Cardinality(I)
    BY <1>3, <2>1, FS_Product, Zenon
  <2> QED
    BY <1>1, <1>3, <2>1, <2>2
<1> QED
  BY <1>3, <1>4 DEF I, c, d

LEMMA LostFinite ==
  ASSUME Typed
  PROVE  /\ IsFiniteSet(LostBetween) /\ IsFiniteSet(LostStates)
         /\ Cardinality(LostBetween) \in Nat /\ Cardinality(LostStates) \in Nat
<1>1. IsFiniteSet(Num)
  BY FS_Interval, NumFields DEF Num
<1>2. IsFiniteSet(Num \X Num)
  BY <1>1, FS_Product
<1>3. LostBetween \in SUBSET (Num \X Num)
  BY DEF LostBetween, Typed
<1>4. LostStates \in SUBSET Num
  BY DEF LostStates, Typed
<1> QED
  BY <1>1, <1>2, <1>3, <1>4, FS_Subset, FS_CardinalityType

(***************************************************************************)
(* In order, a message counts as missed what was lost since the last one.  *)
(***************************************************************************)
LEMMA LossDelivered ==
  ASSUME Typed, Typed', Numbered, LossCounted, Orderly, Regular,
         wire # <<>>, NEW m \in Frame, m = wire[1],
         stream.known => stream.last.sq < NumMax /\ stream.last.st <= m.st,
         Follows(stream, m, now, stream'), wire' = RemoveAt(wire, 1),
         fed' = fed \cup {Number(m)}, lost' = lost, lastFed' = m, pub' = pub
  PROVE  LossCounted'
<1>1. /\ stream \in GooseStream /\ stream' \in GooseStream
      /\ wire \in Seq(Frame) /\ now \in Nat
      /\ Len(wire) \in Nat /\ 1 \in 1 .. Len(wire) /\ DOMAIN wire = 1 .. Len(wire)
  BY LineTyped, LenProperties DEF Typed, TypeOK
<1> DEFINE last == stream.last
           missed == stream.missed
<1>2. /\ last \in Frame /\ last.st \in Nat /\ last.sq \in Nat
      /\ m.st \in Nat /\ m.sq \in Nat /\ m.st \in Num /\ m.sq \in Num
      /\ pub.st \in Nat /\ missed \in Nat
  BY <1>1, StreamFields, FrameFields, NumFields DEF Typed, TypeOK, Publisher
<1>3. Ascending(wire) /\ Precedes(m, pub) /\ OnWire(wire, m.st, m.sq)
  BY <1>1 DEF Numbered, OnWire
<1>4. /\ stream.known =>
           /\ Number(last) \in fed
           /\ \A n \in fed : Behind(stream, n[1], n[2])
           /\ Precedes(last, m)
      /\ ~stream.known => fed = {}
      /\ \A n \in lost : /\ n \notin fed /\ ~OnWire(wire, n[1], n[2])
                         /\ \/ n[1] < pub.st
                            \/ n[1] = pub.st /\ n[2] < pub.sq
      /\ missed = Cardinality(LostBetween) + Cardinality(LostStates)
  BY <1>1 DEF LossCounted
<1>5. /\ stream'.known /\ Behind(stream', m.st, m.sq) /\ stream'.last = m
      /\ stream.known /\ m.st = last.st => Continues(last, m)
  <2>1. Advanced(stream, m, stream')
    BY <1>1, Advances
  <2>2. stream.known => ~(m.st = last.st /\ m.sq <= last.sq)
    BY <1>2, <1>4 DEF Precedes
  <2> QED
    BY <2>1, <2>2 DEF Advanced
<1>6. /\ \A n : n \in fed => n \in Num \X Num
      /\ \A n : n \in lost => n \in Num \X Num
      /\ Number(m) = <<m.st, m.sq>> /\ Number(last) = <<last.st, last.sq>>
  BY DEF Typed, Number
<1>7. \A n \in fed' : Behind(stream', n[1], n[2])
  <2>1. stream.known => \A st, sq \in Num : Behind(stream, st, sq) =>
                                              Behind(stream', st, sq)
    BY <1>1, <1>4, <1>5, StaysBehind
  <2> QED
    BY <1>4, <1>5, <1>6, <2>1
<1>8. \A j \in DOMAIN wire' : Precedes(m, wire'[j])
  <2>1. /\ wire' \in Seq(Frame) /\ Len(wire') = Len(wire) - 1
        /\ \A j \in 1 .. Len(wire') : wire'[j] = wire[j + 1]
    <3> DEFINE r == RemoveAt(wire, 1)
    <3>1. /\ r \in Seq(Frame) /\ Len(r) = Len(wire) - 1
          /\ \A j \in 1 .. Len(r) :
                r[j] = IF j < 1 THEN wire[j] ELSE wire[j + 1]
      BY <1>1, Removed
    <3>2. wire' = r
      OBVIOUS
    <3> HIDE DEF r
    <3>3. \A j \in 1 .. Len(r) : ~(j < 1)
      BY <1>1, <3>1
    <3> QED
      BY <3>1, <3>2, <3>3
  <2>2. DOMAIN wire' = 1 .. Len(wire')
    BY <2>1, LenProperties
  <2> QED
    BY <1>1, <1>3, <2>1, <2>2 DEF Ascending
<1>9. \A n \in lost' : /\ n \notin fed' /\ ~OnWire(wire', n[1], n[2])
                       /\ \/ n[1] < pub.st
                          \/ n[1] = pub.st /\ n[2] < pub.sq
  <2>1. \A st, sq : OnWire(wire', st, sq) => OnWire(wire, st, sq)
    BY <1>1, RemovedOnWire
  <2> QED
    BY <1>3, <1>4, <1>6, <2>1
<1>10. \A st, sq \in Num :
         /\ Precedes([st |-> st, sq |-> sq], m)
         /\ stream.known /\ Precedes(last, [st |-> st, sq |-> sq])
         /\ Accounted(lost, wire, stream, st, sq)
         => <<st, sq>> \in lost
  <2> SUFFICES ASSUME NEW st \in Num, NEW sq \in Num,
                      Precedes([st |-> st, sq |-> sq], m),
                      Precedes(last, [st |-> st, sq |-> sq]),
                      OnWire(wire, st, sq) \/ Behind(stream, st, sq)
               PROVE  FALSE
    BY DEF Accounted
  <2>1. ~Behind(stream, st, sq)
    BY <1>2, NumFields DEF Behind, Precedes
  <2>2. PICK j \in DOMAIN wire : wire[j].st = st /\ wire[j].sq = sq
    BY <2>1 DEF OnWire
  <2>3. j = 1 \/ Precedes(m, wire[j])
    BY <1>1, <1>3 DEF Ascending
  <2> QED
    BY <1>2, <2>2, <2>3, NumFields DEF Precedes
<1>11. /\ IsFiniteSet(LostBetween) /\ IsFiniteSet(LostStates)
       /\ Cardinality(LostBetween) \in Nat /\ Cardinality(LostStates) \in Nat
  BY LostFinite
<1>12. stream'.missed = Cardinality(LostBetween') + Cardinality(LostStates')
  <2>1. CASE ~stream.known
    <3>1. stream'.missed = missed
      BY <2>1 DEF Follows
    <3>2. fed = {} /\ fed' = {Number(m)}
      BY <1>4, <2>1
    <3>3. LostBetween = {} /\ LostStates = {}
      BY <3>2 DEF LostBetween, LostStates
    <3>4. \A x, y : x \in fed' /\ y \in fed' => x = y
      BY <3>2
    <3>5. Number(m)[1] \in Nat /\ Number(m)[2] \in Nat
      BY <1>2, <1>6
    <3>6. LostBetween' = {}
      <4> SUFFICES ASSUME NEW n \in LostBetween' PROVE FALSE
        OBVIOUS
      <4>1. n[2] \in Nat /\ Number(m)[2] < n[2] /\ n[2] < Number(m)[2]
        BY <1>6, <3>2, NumFields DEF LostBetween
      <4> QED
        BY <3>5, <4>1
    <3>7. LostStates' = {}
      <4> SUFFICES ASSUME NEW st \in LostStates' PROVE FALSE
        OBVIOUS
      <4>1. st \in Nat /\ Number(m)[1] < st /\ st < Number(m)[1]
        BY <1>6, <3>2, NumFields DEF LostStates
      <4> QED
        BY <3>5, <4>1
    <3> QED
      BY <1>4, <3>1, <3>3, <3>6, <3>7
  <2>2. CASE stream.known /\ m.st = last.st
    <3> DEFINE Block == {m.st} \X (last.sq + 1 .. m.sq - 1)
    <3>1. last.sq + 1 <= m.sq
      BY <1>2, <1>4, <2>2 DEF Precedes
    <3>2. stream'.missed = missed + (m.sq - last.sq - 1)
      <4>1. stream'.missed = IF SqNext(last.sq, m.sq) THEN missed
                             ELSE missed + m.sq - last.sq - 1
        BY <1>5, <2>2 DEF Follows
      <4>2. SqNext(last.sq, m.sq) => m.sq = last.sq + 1
        BY <1>2, <2>2, NumFields DEF SqNext
      <4>3. SqNext(last.sq, m.sq) => m.sq - last.sq - 1 = 0
        BY <1>2, <4>2
      <4>4. missed + m.sq - last.sq - 1 = missed + (m.sq - last.sq - 1)
        BY <1>2
      <4>5. missed + 0 = missed
        BY <1>2
      <4> QED
        BY <4>1, <4>3, <4>4, <4>5
    <3>3. Block \subseteq lost
      <4> SUFFICES ASSUME NEW q \in last.sq + 1 .. m.sq - 1
                   PROVE  <<m.st, q>> \in lost
        OBVIOUS
      <4>1. q \in Num /\ q < m.sq /\ q > last.sq
        BY <1>2, NumFields
      <4>2. Accounted(lost, wire, stream, m.st, q)
        BY <1>2, <1>3, <4>1 DEF Numbered
      <4> QED
        BY <1>2, <1>10, <2>2, <4>1, <4>2 DEF Precedes
    <3>4. \A n \in fed : n[1] = m.st => n[2] <= last.sq
      BY <1>2, <1>4, <2>2 DEF Behind
    <3>5. LostBetween \cap Block = {}
      BY <1>2, <1>6, <3>4, NumFields DEF LostBetween
    <3>6. LostBetween' = LostBetween \cup Block
      <4>1. LostBetween \subseteq LostBetween'
        BY DEF LostBetween
      <4>2. Block \subseteq LostBetween'
        <5> SUFFICES ASSUME NEW q \in last.sq + 1 .. m.sq - 1
                     PROVE  <<m.st, q>> \in LostBetween'
          OBVIOUS
        <5>1. <<m.st, q>> \in lost' /\ last.sq < q /\ q < m.sq
          BY <1>2, <3>3
        <5>2. Number(last) \in fed' /\ Number(m) \in fed'
          BY <1>4, <2>2
        <5> QED
          BY <1>6, <2>2, <5>1, <5>2 DEF LostBetween
      <4>3. ASSUME NEW n \in LostBetween', n \notin LostBetween
            PROVE  n \in Block
        <5>1. PICK a \in fed', b \in fed' :
                 a[1] = n[1] /\ b[1] = n[1] /\ a[2] < n[2] /\ n[2] < b[2]
          BY <4>3 DEF LostBetween
        <5>2. n \in lost /\ n = <<n[1], n[2]>> /\ n[1] \in Num /\ n[2] \in Num
          BY <1>6, <4>3 DEF LostBetween
        <5>3. ~(a \in fed /\ b \in fed)
          BY <4>3, <5>1, <5>2 DEF LostBetween
        <5>4. b \in fed => b[2] <= last.sq \/ b[1] # m.st
          BY <3>4
        <5>5. b = Number(m) /\ a \in fed
          BY <1>2, <1>6, <3>1, <5>1, <5>2, <5>3, <5>4, NumFields
        <5>6. n[1] = m.st /\ n[2] < m.sq
          BY <1>6, <5>1, <5>5
        <5>7. ~(n[2] < last.sq)
          BY <1>4, <1>6, <2>2, <4>3, <5>1, <5>2, <5>5, <5>6 DEF LostBetween
        <5>8. n[2] # last.sq
          BY <1>4, <1>6, <2>2, <5>2, <5>6
        <5>9. n[2] \in last.sq + 1 .. m.sq - 1
          BY <1>2, <5>2, <5>6, <5>7, <5>8, NumFields
        <5> QED
          BY <5>2, <5>6, <5>9
      <4> QED
        BY <4>1, <4>2, <4>3
    <3>7. LostStates' = LostStates
      BY <1>4, <1>6, <2>2 DEF LostStates
    <3>8. Cardinality(LostBetween') = 
              Cardinality(LostBetween) + (m.sq - last.sq - 1)
      <4>1. last.sq < m.sq
        BY <1>2, <3>1
      <4>2. IsFiniteSet(Block) /\ Cardinality(Block) = m.sq - last.sq - 1
        BY <1>2, <4>1, CountBlock
      <4> HIDE DEF Block
      <4>3. Cardinality(LostBetween') =
              Cardinality(LostBetween) + Cardinality(Block)
        BY <1>11, <3>5, <3>6, <4>2, CountMore, Zenon
      <4> QED
        BY <4>2, <4>3, Zenon
    <3> DEFINE n == m.sq - last.sq - 1
               A == Cardinality(LostBetween)
               B == Cardinality(LostStates)
    <3>9. n \in Int /\ A \in Nat /\ B \in Nat
      BY <1>2, <1>11
    <3>10. /\ stream'.missed = missed + n /\ missed = A + B
           /\ Cardinality(LostBetween') = A + n /\ Cardinality(LostStates') = B
      BY <1>4, <3>2, <3>7, <3>8
    <3> HIDE DEF n, A, B
    <3> QED
      BY <1>2, <3>9, <3>10
  <2>3. CASE stream.known /\ m.st # last.st
    <3> DEFINE Block == last.st + 1 .. m.st - 1
    <3>1. last.st + 1 <= m.st
      BY <1>2, <2>3
    <3>2. stream'.missed = missed + (m.st - last.st - 1)
      <4>1. StAhead(last.st, m.st) = m.st - last.st
        BY <1>2, <3>1 DEF StAhead
      <4>2. stream'.missed = IF StAhead(last.st, m.st) = 0 THEN missed
                             ELSE missed + StAhead(last.st, m.st) - 1
        BY <2>3 DEF Follows
      <4>3. m.st - last.st # 0
        BY <1>2, <3>1
      <4>4. missed + (m.st - last.st) - 1 = missed + (m.st - last.st - 1)
        BY <1>2
      <4>5. stream'.missed = missed + (m.st - last.st) - 1
        BY <4>1, <4>2, <4>3, Zenon
      <4> QED
        BY <4>4, <4>5, Zenon
    <3>3. \A n \in fed : n[1] <= last.st /\ n[1] \in Nat
      BY <1>2, <1>4, <1>6, <2>3, NumFields DEF Behind
    <3>4. ASSUME NEW st \in Block
          PROVE  <<st, 0>> \in lost /\ st \in Num
      <4>0. st \in Nat /\ 1 <= st /\ last.st < st /\ st < m.st
        BY <1>2
      <4>1. st \in Num /\ 0 \in Num /\ 1 <= st /\ last.st < st /\ st < m.st
        BY <1>2, <4>0, NumFields
      <4>2. st <= pub.st
        BY <1>2, <1>3, <4>1 DEF Precedes
      <4>3. Accounted(lost, wire, stream, st, 0)
        BY <4>1, <4>2 DEF Numbered
      <4> QED
        BY <1>10, <2>3, <4>1, <4>3 DEF Precedes
    <3>5. \A st \in LostStates : st < last.st /\ st \in Nat
      BY <1>2, <1>6, <3>3, NumFields DEF LostStates
    <3>6. LostStates \cap Block = {}
      BY <1>2, <3>5
    <3>7. LostStates' = LostStates \cup Block
      <4>1. LostStates \subseteq LostStates'
        <5> SUFFICES ASSUME NEW st \in LostStates PROVE st \in LostStates'
          OBVIOUS
        <5>1. st # m.st
          BY <1>2, <3>1, <3>5
        <5> QED
          BY <1>6, <5>1 DEF LostStates
      <4>2. Block \subseteq LostStates'
        <5> SUFFICES ASSUME NEW st \in Block PROVE st \in LostStates'
          OBVIOUS
        <5>1. last.st < st /\ st < m.st /\ st \in Nat
          BY <1>2
        <5>2. Number(last) \in fed' /\ Number(m) \in fed'
          BY <1>4, <2>3
        <5>3. \A n \in fed' : n[1] # st
          BY <1>2, <1>6, <3>3, <5>1
        <5>4. st \in {n[1] : n \in lost'}
          <6>1. <<st, 0>>[1] = st
            OBVIOUS
          <6> QED
            BY <3>4, <6>1
        <5> QED
          BY <1>6, <5>1, <5>2, <5>3, <5>4 DEF LostStates
      <4>3. ASSUME NEW st \in LostStates', st \notin LostStates
            PROVE  st \in Block
        <5>1. PICK a \in fed', b \in fed' : a[1] < st /\ st < b[1]
          BY <4>3 DEF LostStates
        <5>2. /\ st \in {n[1] : n \in lost} /\ \A n \in fed : n[1] # st
              /\ st # m.st
          BY <1>6, <4>3 DEF LostStates
        <5>3. st \in Nat
          BY <1>6, <5>2, NumFields
        <5>4. \A c \in fed, d \in fed : ~(c[1] < st /\ st < d[1])
          BY <4>3, <5>2 DEF LostStates
        <5>5. a \in fed
          BY <1>2, <1>6, <3>1, <3>3, <5>1, <5>3
        <5>6. b = Number(m)
          BY <5>1, <5>4, <5>5
        <5>7. st < m.st
          BY <1>6, <5>1, <5>6
        <5>8. ~(st < last.st) /\ st # last.st
          BY <1>4, <1>6, <2>3, <5>1, <5>2, <5>4, <5>5
        <5> QED
          BY <1>2, <5>3, <5>7, <5>8
      <4> QED
        BY <4>1, <4>2, <4>3
    <3>8. LostBetween' = LostBetween
      <4>1. LostBetween \subseteq LostBetween'
        BY DEF LostBetween
      <4>2. ASSUME NEW n \in LostBetween'
            PROVE  n \in LostBetween
        <5>1. PICK a \in fed', b \in fed' :
                 a[1] = n[1] /\ b[1] = n[1] /\ a[2] < n[2] /\ n[2] < b[2]
          BY DEF LostBetween
        <5>2. n \in lost /\ n[1] \in Num /\ n[2] \in Num
          BY <1>6 DEF LostBetween
        <5>3. a # Number(m) \/ b # Number(m)
          BY <1>2, <1>6, <5>1, <5>2, NumFields
        <5>4. a \in fed /\ b \in fed
          BY <1>2, <1>6, <3>1, <3>3, <5>1, <5>3
        <5> QED
          BY <5>1, <5>2, <5>4 DEF LostBetween
      <4> QED
        BY <4>1, <4>2
    <3>9. Cardinality(LostStates') = 
              Cardinality(LostStates) + (m.st - last.st - 1)
      <4>1. last.st < m.st
        BY <1>2, <3>1
      <4>2. IsFiniteSet(Block) /\ Cardinality(Block) = m.st - last.st - 1
        BY <1>2, <4>1, CountBlock
      <4> HIDE DEF Block
      <4>3. Cardinality(LostStates') = Cardinality(LostStates) + Cardinality(Block)
        BY <1>11, <3>6, <3>7, <4>2, CountMore, Zenon
      <4> QED
        BY <4>2, <4>3, Zenon
    <3> DEFINE n == m.st - last.st - 1
               A == Cardinality(LostBetween)
               B == Cardinality(LostStates)
    <3>10. n \in Int /\ A \in Nat /\ B \in Nat
      <4>1. n \in Int
        BY <1>2
      <4> QED
        BY <1>11, <4>1, Zenon
    <3>11. /\ stream'.missed = missed + n /\ missed = A + B
           /\ Cardinality(LostBetween') = A /\ Cardinality(LostStates') = B + n
      BY <1>4, <3>2, <3>8, <3>9
    <3> HIDE DEF n, A, B
    <3> QED
      BY <1>2, <3>10, <3>11
  <2> QED
    BY <2>1, <2>2, <2>3
<1>13. Number(m) \in fed'
  OBVIOUS
<1> QED
  BY <1>5, <1>7, <1>8, <1>9, <1>12, <1>13 DEF LossCounted

LEMMA LossPublished ==
  ASSUME Typed, Numbered, LossCounted, Orderly, Published, Regular'
  PROVE  LossCounted'
<1>1. Regular /\ stream' = stream /\ lastFed' = lastFed /\ lost' = lost /\ fed' = fed
  BY RegularPublished DEF history
<1>2. LostBetween' = LostBetween /\ LostStates' = LostStates
  BY <1>1 DEF LostBetween, LostStates
<1>3. ASSUME wire' = wire, pub'.st = pub.st, pub'.sq = pub.sq
      PROVE  LossCounted'
  BY <1>1, <1>2, <1>3 DEF LossCounted, Behind
<1>4. ASSUME NEW f \in Frame, wire' = Append(wire, f),
             f.sq < NumMax, pub'.st = f.st, pub'.sq = f.sq + 1,
             \/ f.st = pub.st /\ f.sq = pub.sq
             \/ f.st = pub.st + 1 /\ f.sq = 0
      PROVE  LossCounted'
  <2>1. /\ pub.st \in Nat /\ pub.sq \in Nat /\ f.st \in Nat /\ f.sq \in Nat
        /\ \A n \in lost : n[1] \in Nat /\ n[2] \in Nat
    BY FrameFields, NumFields DEF Typed, TypeOK, Publisher
  <2>2. wire \in Seq(Frame) /\ Len(wire) \in Nat /\ DOMAIN wire = 1 .. Len(wire)
    BY LenProperties DEF Typed, TypeOK
  <2>3. /\ DOMAIN wire' = 1 .. Len(wire) + 1
        /\ \A j \in DOMAIN wire : wire'[j] = wire[j]
        /\ wire'[Len(wire) + 1] = f
    BY <1>4, <2>2, AppendProperties, LenProperties
  <2>4. \A j \in DOMAIN wire' : j \in DOMAIN wire \/ j = Len(wire) + 1
    BY <2>2, <2>3
  <2>5. stream.known => Precedes(stream.last, f)
    BY <1>1, <1>4, NumberedMore
  <2>6. stream.known => \A j \in DOMAIN wire' : Precedes(stream.last, wire'[j])
    BY <2>3, <2>4, <2>5 DEF LossCounted
  <2>7. \A n \in lost : /\ ~OnWire(wire', n[1], n[2])
                        /\ \/ n[1] < pub'.st
                           \/ n[1] = pub'.st /\ n[2] < pub'.sq
    <3> SUFFICES ASSUME NEW n \in lost
                 PROVE  /\ ~OnWire(wire', n[1], n[2])
                        /\ \/ n[1] < pub'.st
                           \/ n[1] = pub'.st /\ n[2] < pub'.sq
      OBVIOUS
    <3>1. /\ ~OnWire(wire, n[1], n[2])
          /\ \/ n[1] < pub.st
             \/ n[1] = pub.st /\ n[2] < pub.sq
      BY DEF LossCounted
    <3>2. ~(n[1] = f.st /\ n[2] = f.sq)
      BY <1>4, <2>1, <3>1
    <3>3. ~OnWire(wire', n[1], n[2])
      BY <2>3, <2>4, <3>1, <3>2 DEF OnWire
    <3>4. n[1] < pub'.st \/ (n[1] = pub'.st /\ n[2] < pub'.sq)
      <4>1. n[1] \in Nat /\ n[2] \in Nat
        BY <2>1
      <4>2. \/ pub.st < pub'.st
            \/ pub.st = pub'.st /\ pub.sq < pub'.sq
        BY <1>4, <2>1
      <4>3. pub'.st \in Nat /\ pub'.sq \in Nat
        BY <1>4, <2>1
      <4> DEFINE x == n[1]
                 y == n[2]
      <4> HIDE DEF x, y
      <4>4. x < pub'.st \/ (x = pub'.st /\ y < pub'.sq)
        BY <2>1, <3>1, <4>1, <4>2, <4>3 DEF x, y
      <4> QED
        BY <4>4 DEF x, y
    <3> QED
      BY <3>3, <3>4
  <2> QED
    BY <1>1, <1>2, <2>6, <2>7 DEF LossCounted, Behind
<1> QED
  BY <1>3, <1>4, RegularPublished

(***************************************************************************)
(* A frame that gets lost is not one of those between two received: it has *)
(* still to be overtaken.                                                  *)
(***************************************************************************)
LEMMA LossLost ==
  ASSUME Typed, Numbered, LossCounted, Orderly, NEW i \in DOMAIN wire, Lose(i)
  PROVE  LossCounted'
<1>1. /\ pub' = pub /\ stream' = stream /\ wire' = RemoveAt(wire, i)
      /\ lost' = Note(lost, wire[i]) /\ fed' = fed /\ lastFed' = lastFed
  BY DEF Lose
<1> DEFINE m == wire[i]
<1>2. /\ wire \in Seq(Frame) /\ i \in 1 .. Len(wire) /\ m \in Frame
      /\ stream \in GooseStream
  BY LenProperties, ElementOfSeq DEF Typed, TypeOK
<1>3. /\ m.st \in Nat /\ m.sq \in Nat
      /\ stream.last.st \in Nat /\ stream.last.sq \in Nat
  BY <1>2, FrameFields, StreamFields, NumFields
<1>4. lost' = lost \cup {Number(m)} /\ Number(m) = <<m.st, m.sq>>
  BY <1>1 DEF Note, Number
<1>5. Regular
  BY DEF Regular, Orderly
<1>6. /\ \A j \in DOMAIN wire' : \E k \in DOMAIN wire : wire'[j] = wire[k]
      /\ \A st, sq : OnWire(wire', st, sq) => OnWire(wire, st, sq)
      /\ ~OnWire(wire', m.st, m.sq)
  BY <1>1, <1>2, <1>5, RemovedOnWire DEF Numbered
<1>7. Precedes(m, pub) /\ (stream.known => Precedes(stream.last, m))
  BY <1>5 DEF Numbered, LossCounted
<1>8. \A n \in fed : /\ n[1] \in Nat /\ n[2] \in Nat
                     /\ n[1] < m.st \/ (n[1] = m.st /\ n[2] < m.sq)
  <2> SUFFICES ASSUME NEW n \in fed
               PROVE  /\ n[1] \in Nat /\ n[2] \in Nat
                      /\ n[1] < m.st \/ (n[1] = m.st /\ n[2] < m.sq)
    OBVIOUS
  <2>1. stream.known /\ Behind(stream, n[1], n[2])
    BY DEF LossCounted
  <2>2. n[1] \in Nat /\ n[2] \in Nat
    BY NumFields DEF Typed
  <2> QED
    BY <1>3, <1>7, <2>1, <2>2 DEF Behind, Precedes
<1> HIDE DEF m
<1>9. LostBetween' = LostBetween
  <2>1. \A a \in fed, b \in fed : ~(b[1] = m.st /\ m.sq < b[2])
    BY <1>3, <1>8
  <2>2. Number(m)[1] = m.st /\ Number(m)[2] = m.sq
    BY <1>4
  <2>3. ASSUME NEW n \in LostBetween' PROVE n \in LostBetween
    <3>1. PICK a \in fed, b \in fed :
             a[1] = n[1] /\ b[1] = n[1] /\ a[2] < n[2] /\ n[2] < b[2]
      BY <1>1 DEF LostBetween
    <3>2. n # Number(m)
      BY <2>1, <2>2, <3>1
    <3>3. n \in lost
      BY <1>4, <3>2 DEF LostBetween
    <3> QED
      BY <3>1, <3>3 DEF LostBetween
  <2>4. LostBetween \subseteq LostBetween'
    BY <1>1, <1>4 DEF LostBetween
  <2> QED
    BY <2>3, <2>4
<1>10. LostStates' = LostStates
  <2>1. \A b \in fed : ~(m.st < b[1])
    BY <1>3, <1>8
  <2>2. Number(m)[1] = m.st
    BY <1>4
  <2>3. ASSUME NEW st \in LostStates' PROVE st \in LostStates
    <3>1. PICK a \in fed, b \in fed : a[1] < st /\ st < b[1]
      BY <1>1 DEF LostStates
    <3>2. PICK n \in lost' : n[1] = st
      BY DEF LostStates
    <3>3. n # Number(m)
      BY <2>1, <2>2, <3>1, <3>2
    <3>4. n \in lost /\ \A e \in fed : e[1] # st
      BY <1>1, <1>4, <3>2, <3>3 DEF LostStates
    <3> QED
      BY <3>1, <3>2, <3>4 DEF LostStates
  <2>4. LostStates \subseteq LostStates'
    BY <1>1, <1>4 DEF LostStates
  <2> QED
    BY <2>3, <2>4
<1>11. stream.known => \A j \in DOMAIN wire' : Precedes(stream.last, wire'[j])
  BY <1>6 DEF LossCounted
<1>12. \A n \in lost' : /\ n \notin fed /\ ~OnWire(wire', n[1], n[2])
                        /\ \/ n[1] < pub.st
                           \/ n[1] = pub.st /\ n[2] < pub.sq
  <2>1. \A n \in lost : /\ n \notin fed /\ ~OnWire(wire', n[1], n[2])
                        /\ \/ n[1] < pub.st
                           \/ n[1] = pub.st /\ n[2] < pub.sq
    BY <1>6 DEF LossCounted
  <2>2. Number(m) \notin fed
    BY <1>3, <1>4, <1>8
  <2> QED
    BY <1>4, <1>6, <1>7, <2>1, <2>2 DEF Precedes
<1> QED
  BY <1>1, <1>9, <1>10, <1>11, <1>12 DEF LossCounted, Behind

LEMMA NextLossCounted ==
  ASSUME Typed, Typed', Numbered, LossCounted, LateAwaited, [Next]_vars
  PROVE  LossCounted'
<1> SUFFICES ASSUME Orderly' PROVE LossCounted'
  BY DEF LossCounted
<1>1. Regular' /\ stream \in GooseStream /\ now \in Nat
  BY DEF Regular, Orderly, Typed, TypeOK
<1>2. CASE Published
  BY <1>1, <1>2, RegularPublished, LossPublished
<1>3. ASSUME NEW i \in DOMAIN wire, NEW again \in BOOLEAN, Deliver(i, again)
      PROVE  LossCounted'
  <2> DEFINE m == wire[1]
  <2>1. /\ Regular /\ Orderly /\ i = 1 /\ ~again
        /\ 1 \in 1 .. Len(wire) /\ m \in Frame
        /\ Follows(stream, m, now, stream')
        /\ stream.known => stream.last.sq < NumMax /\ stream.last.st <= m.st
    BY <1>1, <1>3, RegularDelivered
  <2>2. /\ pub' = pub /\ lost' = lost /\ lastFed' = m /\ wire' = RemoveAt(wire, 1)
        /\ fed' = fed \cup {Number(m)}
    BY <1>3, <2>1 DEF Deliver, Note
  <2>3. m = wire[1]
    OBVIOUS
  <2>4. wire # <<>>
    BY <2>1, EmptySeq, LenProperties
  <2> HIDE DEF m
  <2> QED
    BY <2>1, <2>2, <2>3, <2>4, LossDelivered
<1>4. ASSUME NEW i \in DOMAIN wire, Lose(i)
      PROVE  LossCounted'
  <2>1. Orderly
    BY <1>4 DEF Lose, Orderly
  <2> QED
    BY <1>4, <2>1, LossLost
<1>5. CASE Supervise \/ Tick \/ UNCHANGED vars
  <2>1. /\ wire' = wire /\ pub' = pub /\ lost' = lost /\ fed' = fed /\ Orderly
        /\ lastFed' = lastFed /\ stream'.missed = stream.missed
        /\ stream'.known = stream.known /\ stream'.last = stream.last
    <3>1. CASE Supervise
      BY <1>1, <3>1, Checks DEF Supervise, history, Orderly
    <3>2. CASE Tick \/ UNCHANGED vars
      BY <3>2 DEF Tick, vars, history, Orderly
    <3> QED
      BY <1>5, <3>1, <3>2
  <2>2. LostBetween' = LostBetween /\ LostStates' = LostStates
    BY <2>1 DEF LostBetween, LostStates
  <2> QED
    BY <2>1, <2>2 DEF LossCounted, Behind
<1> QED
  BY <1>2, <1>3, <1>4, <1>5 DEF Next

----------------------------------------------------------------------------
(* What is late is awaited                                                 *)

LEMMA OwedFinite ==
  ASSUME NEW w, NEW s
  PROVE  IsFiniteSet(Owed(w, s)) /\ Cardinality(Owed(w, s)) \in Nat
<1>1. IsFiniteSet(Num)
  BY FS_Interval, NumFields DEF Num
<1>2. Owed(w, s) \subseteq Num
  BY DEF Owed
<1> QED
  BY <1>1, <1>2, FS_Subset, FS_CardinalityType

LEMMA LatePublished ==
  ASSUME Typed, Numbered, LateAwaited, Lossless, Published, Regular'
  PROVE  LateAwaited'
<1>1. Regular /\ stream' = stream /\ lost' = lost
  BY RegularPublished DEF history
<1>2. CASE wire' = wire
  BY <1>1, <1>2 DEF LateAwaited, Owed
<1>3. ASSUME NEW f \in Frame, wire' = Append(wire, f),
             f.sq < NumMax, pub'.st = f.st, pub'.sq = f.sq + 1,
             \/ f.st = pub.st /\ f.sq = pub.sq
             \/ f.st = pub.st + 1 /\ f.sq = 0
      PROVE  LateAwaited'
  <2>1. /\ stream.known => Precedes(stream.last, f)
        /\ \A st, sq : OnWire(wire, st, sq) => OnWire(wire', st, sq)
    BY <1>1, <1>3, NumberedMore
  <2>2. wire \in Seq(Frame) /\ stream \in GooseStream
    BY DEF Typed, TypeOK
  <2>3. stream.last.st \in Nat /\ f.st \in Nat
    BY <2>2, StreamFields, FrameFields, NumFields
  <2>4. /\ \A j \in DOMAIN wire : wire'[j] = wire[j]
        /\ \A j \in DOMAIN wire' : j \in DOMAIN wire \/ wire'[j] = f
    BY <1>3, <2>2, AppendProperties, LenProperties
  <2>5. stream.known => \A j \in DOMAIN wire' : stream.last.st <= wire'[j].st
    BY <2>1, <2>3, <2>4 DEF LateAwaited, Precedes
  <2>6. Cardinality(Owed(wire, stream)) <= Cardinality(Owed(wire', stream))
    <3>1. Owed(wire, stream) \subseteq Owed(wire', stream)
      BY <2>1 DEF Owed
    <3> QED
      BY <3>1, OwedFinite, FS_Subset
  <2>7. stream.missed \in Nat
    BY <2>2, StreamFields
  <2>8. stream.missed <= Cardinality(Owed(wire, stream)) =>
          stream.missed <= Cardinality(Owed(wire', stream))
    BY <2>6, <2>7, OwedFinite
  <2> QED
    BY <1>1, <2>5, <2>8 DEF LateAwaited
<1> QED
  BY <1>2, <1>3, RegularPublished

\* The i-th frame overtakes none of another state.
KeepsState(w, i) == i > 1 => \A j \in 1 .. i : w[j].st = w[i].st

\* It is taken from the wire, or will come again.
Taken(i) ==
    i \in 1 .. Len(wire) /\ (wire' = wire \/ wire' = RemoveAt(wire, i))

(***************************************************************************)
(* A message that arrives is no longer owed; those it overtakes are.       *)
(***************************************************************************)
LEMMA LateDelivered ==
  ASSUME Typed, Typed', Numbered, LateAwaited, Lossless, Regular,
         NEW m \in Frame, NEW i, m = wire[i], KeepsState(wire, i), Taken(i),
         stream.known => stream.last.sq < NumMax /\ stream.last.st <= m.st,
         Follows(stream, m, now, stream'), lost' = lost
  PROVE  LateAwaited'
<1> DEFINE last == stream.last
           missed == stream.missed
           recent == stream.recent
<1>1. /\ stream \in GooseStream /\ stream' \in GooseStream
      /\ wire \in Seq(Frame) /\ now \in Nat
      /\ Len(wire) \in Nat /\ DOMAIN wire = 1 .. Len(wire) /\ i \in DOMAIN wire
      /\ i \in 1 .. Len(wire)
  BY LineTyped, LenProperties DEF Typed, TypeOK, Taken
<1>2. /\ last.st \in Nat /\ last.sq \in Nat
      /\ m.st \in Nat /\ m.sq \in Nat /\ m.st \in Num /\ m.sq \in Num
      /\ pub.st \in Nat /\ missed \in Nat /\ stream'.missed \in Nat
  BY <1>1, StreamFields, FrameFields, NumFields DEF Typed, TypeOK, Publisher
<1>15. recent \in Seq(Num)
  BY <1>1, StreamFields
<1>3. Ascending(wire) /\ Precedes(m, pub) /\ OnWire(wire, m.st, m.sq)
  BY <1>1 DEF Numbered, OnWire
<1>4. /\ stream.known =>
           /\ \A n \in Range(recent) : n <= last.sq
           /\ \A j \in DOMAIN wire : last.st <= wire[j].st
           /\ missed <= Cardinality(Owed(wire, stream))
      /\ ~stream.known => missed = 0 /\ recent = <<>>
      /\ lost = {}
  BY DEF LateAwaited
<1>5. stream'.known
  BY DEF Follows
<1>6. /\ \A j \in DOMAIN wire' : \E k \in DOMAIN wire : wire'[j] = wire[k]
      /\ \A st, sq : OnWire(wire, st, sq) =>
           OnWire(wire', st, sq) \/ (m.st = st /\ m.sq = sq)
  BY <1>1, RemovedOnWire DEF Taken
<1>7. \A j \in DOMAIN wire : m.st <= wire[j].st
  <2> SUFFICES ASSUME NEW j \in DOMAIN wire PROVE m.st <= wire[j].st
    OBVIOUS
  <2>1. wire[j].st \in Nat
    BY <1>1, ElementOfSeq, FrameFields, NumFields
  <2>2. CASE j <= i
    <3>1. j \in 1 .. i /\ i \in 1 .. Len(wire) /\ (j = i \/ i > 1)
      BY <1>1, <2>2
    <3>2. wire[j].st = m.st
      BY <3>1 DEF KeepsState
    <3> QED
      BY <1>2, <3>2
  <2>3. CASE i < j
    BY <1>1, <1>2, <1>3, <2>1, <2>3 DEF Ascending, Precedes
  <2> QED
    BY <1>1, <2>2, <2>3
<1>8. /\ \A q \in Range(Pushed(recent, m.sq)) : q \in Range(recent) \/ q = m.sq
      /\ \A q \in Range(Pushed(<<>>, m.sq)) : q = m.sq
  <2>1. Range(Pushed(recent, m.sq)) \subseteq Range(recent) \cup {m.sq}
    BY <1>2, <1>15, PushedFacts
  <2>2. <<>> \in Seq(Num) /\ Range(<<>>) = {}
    BY EmptySeq DEF Range
  <2>3. Range(Pushed(<<>>, m.sq)) \subseteq {m.sq}
    BY <1>2, <2>2, PushedFacts
  <2> QED
    BY <2>1, <2>3
<1> DEFINE A == Owed(wire, stream)
           B == Owed(wire', stream')
           Sound == /\ \A j \in DOMAIN wire' : stream'.last.st <= wire'[j].st
                    /\ \A n \in Range(stream'.recent) : n <= stream'.last.sq
                    /\ stream'.missed <= Cardinality(B)
<1>9. /\ IsFiniteSet(A) /\ Cardinality(A) \in Nat
      /\ IsFiniteSet(B) /\ Cardinality(B) \in Nat
  BY OwedFinite
<1> SUFFICES Sound
  BY <1>4, <1>5 DEF LateAwaited
<1>10. ASSUME stream'.last = m
       PROVE  \A j \in DOMAIN wire' : stream'.last.st <= wire'[j].st
  BY <1>6, <1>7, <1>10
<1>11. CASE ~stream.known
  <2>1. /\ stream'.last = m /\ stream'.missed = missed
        /\ stream'.recent = Pushed(recent, m.sq)
    BY <1>11 DEF Follows
  <2>2. missed = 0 /\ recent = <<>>
    BY <1>4, <1>11
  <2>3. \A n \in Range(stream'.recent) : n <= m.sq
    BY <1>2, <1>8, <2>1, <2>2
  <2> QED
    BY <1>9, <1>10, <2>1, <2>2, <2>3
<1>12. CASE stream.known /\ IsLate(last, m)
  <2>1. /\ stream'.last = last
        /\ m.sq \in Range(recent) => stream'.missed = missed /\ stream'.recent = recent
        /\ m.sq \notin Range(recent) =>
             /\ stream'.missed = IF missed = 0 THEN 0 ELSE missed - 1
             /\ stream'.recent = Pushed(recent, m.sq)
    BY <1>12 DEF Follows
  <2>2. m.st = last.st /\ m.sq <= last.sq
    BY <1>2, <1>12 DEF IsLate
  <2>3. \A j \in DOMAIN wire' : stream'.last.st <= wire'[j].st
    BY <1>4, <1>6, <1>12, <2>1
  <2>4. \A n \in Range(stream'.recent) : n <= last.sq
    BY <1>4, <1>8, <1>12, <2>1, <2>2
  <2>5. \A q \in A : q # m.sq => q \in B
    BY <1>6, <1>8, <2>1 DEF Owed
  <2>6. stream'.missed <= Cardinality(B)
    <3>1. CASE m.sq \in Range(recent)
      <4>1. A \subseteq B
        BY <2>5, <3>1 DEF Owed
      <4>2. Cardinality(A) <= Cardinality(B)
        BY <1>9, <4>1, FS_Subset
      <4> HIDE DEF A, B
      <4>3. missed <= Cardinality(A)
        BY <1>4, <1>12 DEF A
      <4> QED
        BY <1>2, <1>9, <2>1, <3>1, <4>2, <4>3
    <3>2. CASE m.sq \notin Range(recent)
      <4> DEFINE C == B \cup {m.sq}
      <4>1. A \subseteq C
        BY <2>5
      <4> HIDE DEF A, B
      <4>2. /\ IsFiniteSet(C)
            /\ Cardinality(C) = Cardinality(B) \/ Cardinality(C) = Cardinality(B) + 1
        BY <1>9, FS_AddElement
      <4> HIDE DEF C
      <4>3. Cardinality(A) <= Cardinality(C)
        BY <4>1, <4>2, FS_Subset
      <4>4. missed <= Cardinality(A)
        BY <1>4, <1>12 DEF A
      <4>5. stream'.missed = IF missed = 0 THEN 0 ELSE missed - 1
        BY <2>1, <3>2
      <4> QED
        BY <1>2, <1>9, <4>2, <4>3, <4>4, <4>5
    <3> QED
      BY <3>1, <3>2
  <2> QED
    BY <2>1, <2>3, <2>4, <2>6
<1>13. CASE stream.known /\ Continues(last, m)
  <2>1. /\ stream'.last = m /\ stream'.recent = Pushed(recent, m.sq)
        /\ stream'.missed = IF SqNext(last.sq, m.sq) THEN missed
                            ELSE missed + m.sq - last.sq - 1
    BY <1>13 DEF Follows
  <2>2. /\ m.st = last.st /\ last.sq < m.sq
        /\ SqNext(last.sq, m.sq) <=> m.sq = last.sq + 1
    BY <1>2, <1>13, NumFields DEF Continues, IsLate, SqNext
  <2>3. stream'.missed = missed + (m.sq - last.sq - 1)
    <3>1. m.sq = last.sq + 1 => missed + (m.sq - last.sq - 1) = missed
      BY <1>2
    <3>2. missed + m.sq - last.sq - 1 = missed + (m.sq - last.sq - 1)
      BY <1>2
    <3> QED
      BY <2>1, <2>2, <3>1, <3>2, Zenon
  <2>4. \A n \in Range(stream'.recent) : n <= m.sq
    <3>1. \A n \in Range(recent) : n \in Num
      BY <1>15, LenProperties, ElementOfSeq DEF Range
    <3>2. \A n \in Range(recent) : n <= last.sq /\ n \in Nat
      BY <1>4, <1>13, <3>1, NumFields
    <3> QED
      BY <1>2, <1>8, <2>1, <2>2, <3>2
  <2> DEFINE Block == last.sq + 1 .. m.sq - 1
  <2>5. A \subseteq B
    <3> SUFFICES ASSUME NEW q \in A PROVE q \in B
      OBVIOUS
    <3>1. /\ q \in Num /\ q < last.sq /\ q \notin Range(recent)
          /\ OnWire(wire, m.st, q)
      BY <2>2 DEF Owed
    <3>2. q < m.sq /\ q # m.sq
      BY <1>2, <2>2, <3>1, NumFields
    <3>3. OnWire(wire', m.st, q) /\ q \notin Range(stream'.recent)
      BY <1>6, <1>8, <2>1, <3>1, <3>2
    <3> QED
      BY <2>1, <3>1, <3>2, <3>3 DEF Owed
  <2>6. Block \subseteq B
    <3> SUFFICES ASSUME NEW q \in Block PROVE q \in B
      OBVIOUS
    <3>1. q \in Nat /\ last.sq < q /\ q < m.sq
      BY <1>2
    <3>2. q \in Num /\ q # m.sq
      BY <1>2, <3>1, NumFields
    <3>3. Accounted(lost, wire, stream, m.st, q)
      BY <1>2, <1>3, <3>1, <3>2 DEF Numbered
    <3>4. ~Behind(stream, m.st, q)
      BY <1>2, <2>2, <3>1 DEF Behind
    <3>5. OnWire(wire', m.st, q)
      BY <1>4, <1>6, <3>2, <3>3, <3>4 DEF Accounted
    <3>6. q \notin Range(recent)
      BY <1>2, <1>4, <1>13, <3>1
    <3>7. q \notin Range(stream'.recent)
      BY <1>8, <2>1, <3>2, <3>6
    <3> QED
      BY <2>1, <3>1, <3>2, <3>5, <3>7 DEF Owed
  <2>7. A \cap Block = {}
    BY <1>2, NumFields DEF Owed
  <2>8. IsFiniteSet(Block) /\ Cardinality(Block) = m.sq - last.sq - 1
    BY <1>2, <2>2, CountBlock
  <2>9. missed <= Cardinality(A)
    BY <1>4, <1>13
  <2> HIDE DEF A, B, Block
  <2>10. Cardinality(A \cup Block) = Cardinality(A) + Cardinality(Block)
    BY <1>9, <2>7, <2>8, CountMore, Zenon
  <2>11. Cardinality(A \cup Block) <= Cardinality(B)
    <3>1. A \cup Block \subseteq B
      BY <2>5, <2>6
    <3> QED
      BY <1>9, <3>1, FS_Subset
  <2>12. stream'.missed <= Cardinality(B)
    <3> DEFINE n == m.sq - last.sq - 1
               a == Cardinality(A)
    <3>1. n \in Int /\ a \in Nat
      <4>1. n \in Int
        BY <1>2
      <4> QED
        BY <1>9, <4>1, Zenon
    <3>2. a + n <= Cardinality(B)
      BY <2>8, <2>10, <2>11, Zenon
    <3> HIDE DEF n, a
    <3>3. stream'.missed = missed + n /\ missed <= a
      BY <2>3, <2>9 DEF n, a
    <3> QED
      BY <1>2, <1>9, <3>1, <3>2, <3>3
  <2> QED
    BY <1>10, <2>1, <2>4, <2>12
<1>14. CASE stream.known /\ m.st # last.st
  <2>1. last.st < m.st
    BY <1>2, <1>14
  <2>2. /\ stream'.last = m /\ stream'.recent = Pushed(<<>>, m.sq)
        /\ stream'.missed = IF StAhead(last.st, m.st) = 0 THEN missed
                            ELSE missed + StAhead(last.st, m.st) - 1
    BY <1>14 DEF Follows
  <2>3. A = {}
    <3> SUFFICES ASSUME NEW q \in A PROVE FALSE
      OBVIOUS
    <3>1. PICK j \in DOMAIN wire : wire[j].st = last.st
      BY DEF Owed, OnWire
    <3> QED
      BY <1>2, <1>7, <2>1, <3>1
  <2>4. missed = 0
    <3>1. Cardinality(A) = 0
      BY <2>3, FS_EmptySet
    <3> HIDE DEF A
    <3>2. missed <= Cardinality(A)
      BY <1>4, <1>14 DEF A
    <3> QED
      BY <1>2, <3>1, <3>2
  <2>5. m.st = last.st + 1
    <3> SUFFICES ASSUME last.st + 1 < m.st PROVE FALSE
      BY <1>2, <2>1
    <3> DEFINE st == last.st + 1
    <3>1. st \in Num /\ 0 \in Num /\ 1 <= st /\ st < m.st
      BY <1>2, NumFields
    <3>2. st <= pub.st
      BY <1>2, <1>3, <3>1 DEF Precedes
    <3>3. ~Behind(stream, st, 0)
      BY <1>2 DEF Behind
    <3> HIDE DEF st
    <3>4. OnWire(wire, st, 0)
      BY <1>4, <3>1, <3>2, <3>3 DEF Numbered, Accounted
    <3>5. PICK j \in DOMAIN wire : wire[j].st = st
      BY <3>4 DEF OnWire
    <3> QED
      BY <1>2, <1>7, <3>1, <3>5, NumFields
  <2>6. stream'.missed = 0
    <3>1. StAhead(last.st, m.st) = 1
      BY <1>2, <2>5 DEF StAhead
    <3> QED
      BY <2>2, <2>4, <3>1
  <2>7. \A n \in Range(stream'.recent) : n <= m.sq
    BY <1>2, <1>8, <2>2
  <2> QED
    BY <1>9, <1>10, <2>2, <2>6, <2>7
<1> QED
  BY <1>11, <1>12, <1>13, <1>14 DEF Continues

LEMMA NextLateAwaited ==
  ASSUME Typed, Typed', Numbered, LossCounted, LateAwaited, [Next]_vars
  PROVE  LateAwaited'
<1> SUFFICES ASSUME Lossless' PROVE LateAwaited'
  BY DEF LateAwaited
<1>1. Regular' /\ stream \in GooseStream /\ now \in Nat
  BY DEF Regular, Lossless, Typed, TypeOK
<1>2. CASE Published
  <2>1. Lossless
    BY <1>2, TroubleStays DEF Next, Lossless
  <2> QED
    BY <1>1, <1>2, <2>1, LatePublished
<1>3. ASSUME NEW i \in DOMAIN wire, NEW again \in BOOLEAN, Deliver(i, again)
      PROVE  LateAwaited'
  <2> DEFINE m == wire[i]
  <2>1. /\ Regular /\ i \in 1 .. Len(wire) /\ m \in Frame
        /\ Follows(stream, m, now, stream')
        /\ stream.known => stream.last.sq < NumMax /\ stream.last.st <= m.st
    BY <1>1, <1>3, RegularDelivered
  <2>2. Lossless
    BY <1>3 DEF Deliver, Lossless
  <2>3. lost' = lost /\ Taken(i)
    BY <1>3, <2>1 DEF Deliver, Taken
  <2>4. KeepsState(wire, i)
    BY <1>3 DEF Deliver, KeepsState
  <2>5. m = wire[i]
    OBVIOUS
  <2> HIDE DEF m
  <2> QED
    BY <1>1, <2>1, <2>2, <2>3, <2>4, <2>5, LateDelivered
<1>4. ASSUME NEW i \in DOMAIN wire, Lose(i)
      PROVE  LateAwaited'
  BY <1>4 DEF Lose, Lossless
<1>5. CASE Supervise \/ Tick \/ UNCHANGED vars
  <2>1. /\ wire' = wire /\ lost' = lost /\ Lossless
        /\ stream'.missed = stream.missed /\ stream'.recent = stream.recent
        /\ stream'.known = stream.known /\ stream'.last = stream.last
    <3>1. CASE Supervise
      BY <1>1, <3>1, Checks DEF Supervise, history, Lossless
    <3>2. CASE Tick \/ UNCHANGED vars
      BY <3>2 DEF Tick, vars, history, Lossless
    <3> QED
      BY <1>5, <3>1, <3>2
  <2> QED
    BY <2>1 DEF LateAwaited, Owed
<1> QED
  BY <1>2, <1>3, <1>4, <1>5 DEF Next

----------------------------------------------------------------------------
(* The stream is sound                                                     *)

LEMMA InitCounted == Init => Numbered /\ LossCounted /\ LateAwaited
<1> SUFFICES ASSUME Init PROVE Numbered /\ LossCounted /\ LateAwaited
  OBVIOUS
<1>1. /\ wire = <<>> /\ pub = New(0, 0) /\ stream = Unknown(Nothing)
      /\ lost = {} /\ fed = {}
  BY DEF Init, PublisherInit
<1>2. DOMAIN wire = {}
  BY <1>1
<1>3. pub.st = 0 /\ pub.sq = 0
  BY <1>1 DEF New
<1>4. ~stream.known /\ stream.missed = 0 /\ stream.recent = <<>>
  BY <1>1 DEF Unknown
<1>5. \A st, sq : ~OnWire(wire, st, sq)
  BY <1>2 DEF OnWire
<1>6. Numbered
  BY <1>1, <1>2, <1>3, <1>4, <1>5, NumFields DEF Numbered, Ascending
<1>7. LossCounted
  <2>1. LostBetween = {} /\ LostStates = {}
    BY <1>1 DEF LostBetween, LostStates
  <2>2. Cardinality(LostBetween) + Cardinality(LostStates) = 0
    BY <2>1, FS_EmptySet
  <2> QED
    BY <1>1, <1>4, <2>2 DEF LossCounted
<1> QED
  BY <1>1, <1>4, <1>6, <1>7 DEF LateAwaited

LEMMA AlwaysCounted == Spec => [](Typed /\ Numbered /\ LossCounted /\ LateAwaited)
<1> DEFINE Inv == Typed /\ Numbered /\ LossCounted /\ LateAwaited
<1>1. Init => Inv
  BY InitTyped, InitCounted
<1>2. Inv /\ [Next]_vars => Inv'
  BY NextTyped, NextNumbered, NextLossCounted, NextLateAwaited
<1> HIDE DEF Inv
<1>3. Spec => []Inv
  BY <1>1, <1>2, PTL DEF Spec
<1> QED
  BY <1>3 DEF Inv

(***************************************************************************)
(* What feed() knows of a stream is right, whatever the network does: the  *)
(* reference is the message received last, missed is what was lost, and    *)
(* nothing is missed once all that was repeated or overtaken has come.     *)
(***************************************************************************)
THEOREM StreamIsSound == Spec => []StreamSound
<1>1. Typed /\ LossCounted /\ LateAwaited => MissedIsLost
  <2>1. ASSUME Typed, LateAwaited, Lossless, wire = <<>>
        PROVE  stream.missed = 0
    <3>1. Owed(wire, stream) = {}
      <4>1. DOMAIN wire = {}
        BY <2>1
      <4> QED
        BY <4>1 DEF Owed, OnWire
    <3>2. Cardinality(Owed(wire, stream)) = 0
      BY <3>1, FS_EmptySet
    <3>3. stream.missed \in Nat
      BY <2>1, StreamFields DEF Typed, TypeOK
    <3>4. stream.missed <= 0 \/ stream.missed = 0
      BY <2>1, <3>2 DEF LateAwaited
    <3> QED
      BY <3>3, <3>4
  <2> QED
    BY <2>1 DEF MissedIsLost, LossCounted, Lossless
<1>2. Typed /\ InOrder /\ LossCounted => Followed
  BY DEF Followed, InOrder, LossCounted, Undisturbed
<1> QED
  BY <1>1, <1>2, AlwaysInOrder, AlwaysCounted, PTL DEF Typed, StreamSound

=============================================================================
