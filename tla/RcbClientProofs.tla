-------------------------- MODULE RcbClientProofs --------------------------
(***************************************************************************)
(* Proofs about RcbClient, for every number of clients, every settings     *)
(* they want and every bound of the block.                                 *)
(***************************************************************************)
EXTENDS RcbClient, ReportingProofs

\* A BRCB has the attribute ResvTms, as edition 2 says.
Edition2 == Buffered => ResvTmsValues # {}

----------------------------------------------------------------------------
(* The writes of a call                                                    *)

\* The attributes enable() and disable() of c write.
Attributes(c) == {Reserve, "RptEna", "GI"} \cup DOMAIN Wanted[c]

\* How many of its writes enable() has made.
Made(c) == Len(EnableWrites(c)) - Len(task[c].todo)

(***************************************************************************)
(* What remains to be written is the end of what enable() writes, or of    *)
(* what disable() writes.                                                  *)
(***************************************************************************)
TaskOK ==
    /\ task \in [Conns -> Task]
    /\ \A c \in Conns :
          /\ task[c].call = "enable" =>
                /\ Made(c) \in 0 .. Len(EnableWrites(c)) - 1
                /\ task[c].todo = SubSeq(EnableWrites(c), Made(c) + 1,
                                         Len(EnableWrites(c)))
          /\ task[c].call = "disable" =>
                task[c].todo \in {DisableWrites, <<Reserve>>}

(***************************************************************************)
(* The tail of a sequence of n - m elements is one shorter.                *)
(***************************************************************************)
LEMMA TailLength ==
  ASSUME NEW S, NEW t \in Seq(S), NEW n \in Nat, NEW m \in Nat, m < n,
         Len(t) = n - m
  PROVE  /\ t # <<>>
         /\ Tail(t) \in Seq(S) /\ Len(Tail(t)) = n - (m + 1)
         /\ Tail(t) = <<>> <=> m + 1 = n
<1>1. t # <<>>
  BY EmptySeq
<1>2. Tail(t) \in Seq(S) /\ Len(Tail(t)) = n - (m + 1)
  BY <1>1, HeadTailProperties
<1>3. Tail(t) = <<>> <=> Len(Tail(t)) = 0
  BY <1>2, EmptySeq
<1> QED
  BY <1>1, <1>2, <1>3

(***************************************************************************)
(* What one write takes from the front of an end of a sequence.            *)
(***************************************************************************)
LEMMA Suffix ==
  ASSUME NEW S, NEW w \in Seq(S), NEW m \in 0 .. Len(w) - 1
  PROVE  LET t == SubSeq(w, m + 1, Len(w))
         IN  /\ t \in Seq(S) /\ Len(t) = Len(w) - m
             /\ Head(t) = w[m + 1]
             /\ Tail(t) \in Seq(S) /\ Len(Tail(t)) = Len(w) - (m + 1)
             /\ Tail(t) = SubSeq(w, m + 2, Len(w))
             /\ t # <<>>
             /\ Tail(t) = <<>> <=> m + 1 = Len(w)
<1> DEFINE t == SubSeq(w, m + 1, Len(w))
<1>1. Len(w) \in Nat /\ m \in Nat /\ m + 1 \in Int /\ m < Len(w)
  BY LenProperties
<1>2. \A i \in m + 1 .. Len(w) : w[i] \in S
  BY <1>1, ElementOfSeq
<1>3. t \in Seq(S) /\ Len(t) = Len(w) - m
  BY <1>1, <1>2, SubSeqProperties
<1>4. m + 1 \in 1 .. Len(w) /\ Len(w) \in m + 1 .. Len(w)
  BY <1>1
<1>5. (m + 1) + 1 = m + 2
  BY <1>1
<1>6. Head(t) = w[m + 1] /\ Tail(t) = SubSeq(w, m + 2, Len(w))
  BY <1>4, <1>5, HeadTailOfSubSeq
<1> HIDE DEF t
<1>7. /\ t # <<>> /\ Tail(t) \in Seq(S) /\ Len(Tail(t)) = Len(w) - (m + 1)
      /\ Tail(t) = <<>> <=> m + 1 = Len(w)
  BY <1>1, <1>3, TailLength
<1> QED
  BY <1>3, <1>6, <1>7 DEF t

Holds(s, a) == \E j \in 1 .. Len(s) : s[j] = a

(***************************************************************************)
(* What two sequences hold, one after the other.                           *)
(***************************************************************************)
LEMMA HoldsConcat ==
  ASSUME NEW S, NEW s \in Seq(S), NEW t \in Seq(S), NEW a,
         Holds(s, a) \/ Holds(t, a)
  PROVE  Holds(s \o t, a)
<1>1. Len(s) \in Nat /\ Len(t) \in Nat
  BY LenProperties
<1>2. /\ Len(s \o t) = Len(s) + Len(t)
      /\ \A i \in 1 .. Len(s) + Len(t) : (s \o t)[i] =
            IF i <= Len(s) THEN s[i] ELSE t[i - Len(s)]
  BY ConcatProperties
<1>3. ASSUME NEW j \in 1 .. Len(s), s[j] = a PROVE Holds(s \o t, a)
  <2>1. j \in 1 .. Len(s \o t) /\ (s \o t)[j] = a
    BY <1>1, <1>2, <1>3
  <2> QED
    BY <2>1 DEF Holds
<1>4. ASSUME NEW j \in 1 .. Len(t), t[j] = a PROVE Holds(s \o t, a)
  <2>1. /\ j + Len(s) \in 1 .. Len(s \o t)
        /\ ~(j + Len(s) <= Len(s)) /\ (j + Len(s)) - Len(s) = j
    BY <1>1, <1>2
  <2>2. (s \o t)[j + Len(s)] = a
    BY <1>2, <1>4, <2>1
  <2> QED
    BY <2>1, <2>2 DEF Holds
<1> QED
  BY <1>3, <1>4 DEF Holds

(***************************************************************************)
(* enable() reserves first and once, writes each setting that is wanted,   *)
(* and enables the block.                                                  *)
(***************************************************************************)
LEMMA EnableShape ==
  ASSUME NEW c \in Conns
  PROVE  /\ EnableWrites(c) \in Seq(AttributeNames)
         /\ Len(EnableWrites(c)) \in Nat \ {0}
         /\ EnableWrites(c)[1] = Reserve
         /\ \A j \in 2 .. Len(EnableWrites(c)) :
               EnableWrites(c)[j] \in Attributes(c) \ {Reserve}
         /\ \A a \in DOMAIN Wanted[c] \cup {"RptEna"} :
               \E j \in 2 .. Len(EnableWrites(c)) : EnableWrites(c)[j] = a
<1> DEFINE i == IfWanted(c, "IntgPd")
           b == IfWanted(c, "BufTm")
           o == IfWanted(c, "TrgOps")
           e == <<"RptEna", "GI">>
           rest == ((i \o b) \o o) \o e
           A == DOMAIN Wanted[c] \cup {"RptEna", "GI"}
           w == <<Reserve>> \o rest
<1>0. DOMAIN Wanted[c] \subseteq Settings
  BY RcbClientAssumption
<1>1. /\ DOMAIN Wanted[c] \subseteq Settings
      /\ Reserve \in AttributeNames /\ Reserve \notin A /\ A \subseteq AttributeNames
      /\ A \cup {Reserve} = Attributes(c)
  <2>1. Reserve \in {"Resv", "ResvTms"}
    BY DEF Reserve
  <2>2. A \subseteq {"IntgPd", "BufTm", "TrgOps", "RptEna", "GI"}
    BY <1>0 DEF Settings
  <2>3. A \cup {Reserve} = Attributes(c)
    BY DEF Attributes
  <2> HIDE DEF A
  <2>4. /\ Reserve \in AttributeNames /\ A \subseteq AttributeNames
        /\ Reserve \notin A
    BY <2>1, <2>2 DEF AttributeNames, Settings
  <2> QED
    BY <1>0, <2>3, <2>4
<1>2. i \in Seq(A) /\ b \in Seq(A) /\ o \in Seq(A) /\ e \in Seq(A)
  <2>1. "RptEna" \in A /\ "GI" \in A /\ DOMAIN Wanted[c] \subseteq A
    OBVIOUS
  <2>2. <<>> \in Seq(A)
    BY EmptySeq
  <2> HIDE DEF A
  <2>3. e \in Seq(A)
    BY <2>1
  <2>4. i \in Seq(A)
    BY <2>1, <2>2 DEF IfWanted
  <2>5. b \in Seq(A)
    BY <2>1, <2>2 DEF IfWanted
  <2>6. o \in Seq(A)
    BY <2>1, <2>2 DEF IfWanted
  <2> QED
    BY <2>3, <2>4, <2>5, <2>6
<1>3. /\ Holds(e, "RptEna")
      /\ "IntgPd" \in DOMAIN Wanted[c] => Holds(i, "IntgPd")
      /\ "BufTm" \in DOMAIN Wanted[c] => Holds(b, "BufTm")
      /\ "TrgOps" \in DOMAIN Wanted[c] => Holds(o, "TrgOps")
  BY DEF IfWanted, Holds
<1>4. EnableWrites(c) = <<Reserve>> \o (((i \o b) \o o) \o <<"RptEna", "GI">>)
  BY <1>2, ConcatAssociative DEF EnableWrites, Configuration
<1> HIDE DEF i, b, o, e, A
<1>5. /\ i \o b \in Seq(A) /\ (i \o b) \o o \in Seq(A) /\ rest \in Seq(A)
  BY <1>2, ConcatProperties
<1>6. \A a \in DOMAIN Wanted[c] \cup {"RptEna"} : Holds(rest, a)
  <2> SUFFICES ASSUME NEW a \in DOMAIN Wanted[c] \cup {"RptEna"}
               PROVE  Holds(rest, a)
    OBVIOUS
  <2>1. a \in {"IntgPd", "BufTm", "TrgOps", "RptEna"}
    BY <1>1 DEF Settings
  <2>2. CASE a = "RptEna"
    BY <1>2, <1>3, <1>5, <2>2, HoldsConcat
  <2>3. CASE a = "TrgOps"
    BY <1>2, <1>3, <1>5, <2>3, HoldsConcat
  <2>4. CASE a \in {"IntgPd", "BufTm"}
    <3>1. Holds(i \o b, a)
      BY <1>2, <1>3, <2>4, HoldsConcat
    <3>2. Holds((i \o b) \o o, a)
      BY <1>2, <1>5, <3>1, HoldsConcat
    <3> QED
      BY <1>2, <1>5, <3>2, HoldsConcat
  <2> QED
    BY <2>1, <2>2, <2>3, <2>4
<1> HIDE DEF rest
<1>8. <<Reserve>> \in Seq(Attributes(c)) /\ rest \in Seq(Attributes(c))
      /\ Len(<<Reserve>>) = 1 /\ <<Reserve>>[1] = Reserve
  <2>1. Reserve \in Attributes(c) /\ A \subseteq Attributes(c)
    BY <1>1
  <2>2. <<Reserve>> \in Seq(Attributes(c))
    BY <2>1
  <2> QED
    BY <1>5, <2>1, <2>2
<1>9. Len(rest) \in Nat
  BY <1>5, LenProperties
<1>10. /\ w \in Seq(Attributes(c)) /\ Len(w) = 1 + Len(rest)
       /\ \A j \in 1 .. 1 + Len(rest) :
             w[j] = IF j <= 1 THEN <<Reserve>>[j] ELSE rest[j - 1]
  BY <1>8, ConcatProperties
<1> HIDE DEF w
<1>11. w[1] = Reserve
  BY <1>8, <1>9, <1>10
<1>12. \A j \in 2 .. Len(w) : w[j] \in A
  <2> SUFFICES ASSUME NEW j \in 2 .. Len(w) PROVE w[j] \in A
    OBVIOUS
  <2>1. j - 1 \in 1 .. Len(rest) /\ w[j] = rest[j - 1]
    BY <1>9, <1>10
  <2> QED
    BY <1>5, <2>1, ElementOfSeq
<1>13. ASSUME NEW a, Holds(rest, a) PROVE \E j \in 2 .. Len(w) : w[j] = a
  <2>1. PICK j \in 1 .. Len(rest) : rest[j] = a
    BY <1>13 DEF Holds
  <2>2. j + 1 \in 2 .. Len(w) /\ (j + 1) - 1 = j /\ w[j + 1] = rest[(j + 1) - 1]
    BY <1>9, <1>10
  <2> QED
    BY <2>1, <2>2
<1>14. w = EnableWrites(c)
  BY <1>4 DEF w, rest, e
<1>15. w \in Seq(AttributeNames)
  <2>1. Attributes(c) \subseteq AttributeNames
    BY <1>1
  <2> QED
    BY <1>10, <2>1
<1> QED
  BY <1>1, <1>6, <1>9, <1>10, <1>11, <1>12, <1>13, <1>14, <1>15

(***************************************************************************)
(* The next write of a call is of one of its attributes, and what remains  *)
(* after it is an end again.                                               *)
(***************************************************************************)
LEMMA NextWrite ==
  ASSUME TaskOK, NEW c \in Conns, task[c].call # "none"
  PROVE  /\ task[c].call \in Calls
         /\ Head(task[c].todo) \in Attributes(c)
         /\ Tail(task[c].todo) \in Seq(AttributeNames)
         /\ task[c].call = "enable" =>
               /\ Made(c) \in 0 .. Len(EnableWrites(c)) - 1
               /\ Head(task[c].todo) = EnableWrites(c)[Made(c) + 1]
               /\ Len(Tail(task[c].todo)) = Len(EnableWrites(c)) - (Made(c) + 1)
               /\ Tail(task[c].todo) = SubSeq(EnableWrites(c), Made(c) + 2,
                                              Len(EnableWrites(c)))
               /\ Tail(task[c].todo) = <<>> <=>
                     Made(c) + 1 = Len(EnableWrites(c))
         /\ task[c].call = "disable" =>
               \/ /\ Head(task[c].todo) = "RptEna"
                  /\ Tail(task[c].todo) = <<Reserve>>
               \/ Head(task[c].todo) = Reserve /\ Tail(task[c].todo) = <<>>
<1> DEFINE w == EnableWrites(c)
           todo == task[c].todo
           m == Made(c)
<1>1. task[c].call \in Calls
  BY DEF TaskOK, Task
<1>2. CASE task[c].call = "enable"
  <2>1. m \in 0 .. Len(w) - 1 /\ todo = SubSeq(w, m + 1, Len(w))
    BY <1>2 DEF TaskOK
  <2>2. /\ w \in Seq(AttributeNames) /\ Len(w) \in Nat \ {0} /\ w[1] = Reserve
        /\ \A j \in 2 .. Len(w) : w[j] \in Attributes(c)
    BY EnableShape
  <2> HIDE DEF w, todo, m
  <2>3. /\ Head(todo) = w[m + 1]
        /\ Tail(todo) \in Seq(AttributeNames)
        /\ Len(Tail(todo)) = Len(w) - (m + 1)
        /\ Tail(todo) = SubSeq(w, m + 2, Len(w))
        /\ Tail(todo) = <<>> <=> m + 1 = Len(w)
    BY <2>1, <2>2, Suffix
  <2>4. m = 0 \/ m + 1 \in 2 .. Len(w)
    BY <2>1, <2>2
  <2>5. w[m + 1] \in Attributes(c)
    BY <2>2, <2>4 DEF Attributes
  <2> QED
    BY <1>1, <1>2, <2>1, <2>3, <2>5 DEF w, todo, m
<1>3. CASE task[c].call = "disable"
  <2>1. todo \in {DisableWrites, <<Reserve>>}
    BY <1>3 DEF TaskOK
  <2>2. /\ Head(DisableWrites) = "RptEna" /\ Tail(DisableWrites) = <<Reserve>>
        /\ Head(<<Reserve>>) = Reserve /\ Tail(<<Reserve>>) = <<>>
    BY DEF DisableWrites
  <2>3. <<Reserve>> \in Seq(AttributeNames) /\ <<>> \in Seq(AttributeNames)
    BY DEF Reserve, AttributeNames
  <2> QED
    BY <1>1, <1>3, <2>1, <2>2, <2>3 DEF Attributes
<1> QED
  BY <1>1, <1>2, <1>3 DEF Calls

(***************************************************************************)
(* No client has called anything yet.                                      *)
(***************************************************************************)
LEMMA TaskInit == ClientInit => TaskOK
<1>1. <<>> \in Seq(AttributeNames)
  BY EmptySeq
<1> QED
  BY <1>1 DEF ClientInit, TaskOK, Task, Calls

(***************************************************************************)
(* Every step of a client leaves an end of the call's writes.              *)
(***************************************************************************)
LEMMA TaskStep ==
  ASSUME TaskOK, [ClientNext]_rvars
  PROVE  TaskOK'
<1>1. task \in [Conns -> Task]
  BY DEF TaskOK
<1>2. ASSUME NEW c \in Conns, NEW t \in Task,
             task' = [task EXCEPT ![c] = t],
             t.call = "enable" =>
                LET m == Len(EnableWrites(c)) - Len(t.todo)
                IN  /\ m \in 0 .. Len(EnableWrites(c)) - 1
                    /\ t.todo = SubSeq(EnableWrites(c), m + 1,
                                       Len(EnableWrites(c))),
             t.call = "disable" => t.todo \in {DisableWrites, <<Reserve>>}
      PROVE  TaskOK'
  <2>1. task' \in [Conns -> Task] /\ task'[c] = t
    BY <1>1, <1>2
  <2>2. \A d \in Conns \ {c} : task'[d] = task[d]
    BY <1>1, <1>2
  <2> QED
    BY <1>2, <2>1, <2>2 DEF TaskOK, Made
<1>3. ASSUME NEW c \in Conns, NEW result \in {"failed", "enabled", "disabled"},
             Ends(c, result)
      PROVE  TaskOK'
  <2> DEFINE t == [call |-> "none", todo |-> <<>>, result |-> result]
  <2>1. t \in Task /\ t.call = "none"
    BY EmptySeq DEF Task
  <2>2. task' = [task EXCEPT ![c] = t]
    BY <1>3 DEF Ends
  <2> HIDE DEF t
  <2> QED
    BY <1>2, <2>1, <2>2
<1>4. CASE UNCHANGED task
  BY <1>4 DEF TaskOK, Made
<1>5. ASSUME NEW c \in Conns, Begin(c) PROVE TaskOK'
  <2> DEFINE w == EnableWrites(c)
             e == [call |-> "enable", result |-> "none", todo |-> w]
             d == [call |-> "disable", result |-> "none", todo |-> DisableWrites]
  <2>1. task' = [task EXCEPT ![c] = e] \/ task' = [task EXCEPT ![c] = d]
    BY <1>5 DEF Begin
  <2>2. w \in Seq(AttributeNames) /\ Len(w) \in Nat \ {0}
    BY EnableShape
  <2>3. DisableWrites \in Seq(AttributeNames)
    BY DEF DisableWrites, Reserve, AttributeNames
  <2> HIDE DEF w
  <2>4. e \in Task /\ d \in Task
    BY <2>2, <2>3 DEF Task, Calls
  <2>5. Len(w) - Len(w) = 0 /\ w = SubSeq(w, 1, Len(w)) /\ 0 \in 0 .. Len(w) - 1
    BY <2>2, SubSeqFull
  <2>6. CASE task' = [task EXCEPT ![c] = e]
    <3>1. e.call = "enable" /\ e.todo = EnableWrites(c)
      BY DEF w
    <3>2. LET m == Len(EnableWrites(c)) - Len(e.todo)
          IN  /\ m \in 0 .. Len(EnableWrites(c)) - 1
              /\ e.todo = SubSeq(EnableWrites(c), m + 1, Len(EnableWrites(c)))
      BY <2>5, <3>1 DEF w
    <3> HIDE DEF e
    <3> QED
      BY <1>2, <2>4, <2>6, <3>1, <3>2
  <2>7. CASE task' = [task EXCEPT ![c] = d]
    BY <1>2, <2>4, <2>7
  <2> QED
    BY <2>1, <2>6, <2>7
<1>6. ASSUME NEW c \in Conns, Step(c) PROVE TaskOK'
  <2> DEFINE rest == Tail(task[c].todo)
             t == [task[c] EXCEPT !.todo = rest]
  <2>1. task[c].call # "none" /\ task[c] \in Task
    BY <1>1, <1>6 DEF Step
  <2>2. \/ Ends(c, "failed") \/ Ends(c, Done(c))
        \/ rest # <<>> /\ task' = [task EXCEPT ![c].todo = rest]
    BY <1>6 DEF Step
  <2>3. Done(c) \in {"enabled", "disabled"}
    BY DEF Done
  <2>4. CASE rest # <<>> /\ task' = [task EXCEPT ![c].todo = rest]
    <3>1. task' = [task EXCEPT ![c] = t]
      BY <2>4
    <3>2. /\ rest \in Seq(AttributeNames)
          /\ task[c].call = "enable" =>
                /\ Made(c) \in 0 .. Len(EnableWrites(c)) - 1
                /\ Len(rest) = Len(EnableWrites(c)) - (Made(c) + 1)
                /\ rest = SubSeq(EnableWrites(c), Made(c) + 2,
                                 Len(EnableWrites(c)))
                /\ Made(c) + 1 # Len(EnableWrites(c))
          /\ task[c].call = "disable" => rest = <<Reserve>>
      BY <2>1, <2>4, NextWrite
    <3>3. Len(EnableWrites(c)) \in Nat
      BY EnableShape
    <3> HIDE DEF rest
    <3>4. t \in Task /\ t.call = task[c].call /\ t.todo = rest
      BY <2>1, <3>2 DEF Task
    <3> HIDE DEF t
    <3>5. ASSUME t.call = "enable"
          PROVE  LET m == Len(EnableWrites(c)) - Len(t.todo)
                 IN  /\ m \in 0 .. Len(EnableWrites(c)) - 1
                     /\ t.todo = SubSeq(EnableWrites(c), m + 1,
                                        Len(EnableWrites(c)))
      <4> DEFINE m == Len(EnableWrites(c)) - Len(t.todo)
      <4>1. /\ Made(c) \in 0 .. Len(EnableWrites(c)) - 1
            /\ Len(t.todo) = Len(EnableWrites(c)) - (Made(c) + 1)
            /\ t.todo = SubSeq(EnableWrites(c), Made(c) + 2,
                               Len(EnableWrites(c)))
            /\ Made(c) + 1 # Len(EnableWrites(c))
        BY <3>2, <3>4, <3>5
      <4>2. m = Made(c) + 1 /\ m + 1 = Made(c) + 2
            /\ m \in 0 .. Len(EnableWrites(c)) - 1
        BY <3>3, <4>1
      <4> QED
        BY <4>1, <4>2
    <3>6. t.call = "disable" => t.todo \in {DisableWrites, <<Reserve>>}
      BY <3>2, <3>4
    <3> QED
      BY <1>2, <3>1, <3>4, <3>5, <3>6
  <2> QED
    BY <1>3, <2>2, <2>3, <2>4
<1>7. ASSUME NEW c \in Conns, Fails(c) PROVE TaskOK'
  BY <1>3, <1>7 DEF Fails
<1> QED
  BY <1>4, <1>5, <1>6, <1>7 DEF ClientNext, Rest, rvars

(***************************************************************************)
(* What a call writes is what a client of the block may write.             *)
(***************************************************************************)
LEMMA CallsStep ==
  ASSUME TaskOK, [ClientNext]_rvars
  PROVE  [Next]_vars
<1>1. ASSUME NEW c \in Conns, Step(c) PROVE [Next]_vars
  <2> DEFINE a == Head(task[c].todo)
  <2>1. task[c].call # "none"
    BY <1>1 DEF Step
  <2>2. a \in Attributes(c)
    BY <2>1, NextWrite
  <2>3. (~Missing(a) /\ Write(c, a)) \/ Idle(c, a) \/ Refused(c, a)
    BY <1>1 DEF Step
  <2> HIDE DEF a
  <2>4. ASSUME ~Missing(a), Write(c, a) PROVE WriteOther(c)
    <3>1. CASE a = "ResvTms"
      <4>1. 0 \in ResvTmsValues /\ ResvTms \in ResvTmsValues
        BY <2>4, <3>1, RcbClientAssumption DEF Missing
      <4> QED
        BY <2>4, <3>1, <4>1 DEF Write, WriteOther, Settings
    <3>2. CASE a \in Settings
      <4>1. a \in DOMAIN Wanted[c]
        BY <2>2, <3>2 DEF Attributes, Reserve, Settings
      <4>2. a \in DOMAIN ConfigValues /\ Wanted[c][a] \in ConfigValues[a]
        BY <3>2, <4>1, RcbClientAssumption, ReportingAssumption DEF Settings
      <4> QED
        BY <2>4, <3>2, <4>2 DEF Write, WriteOther, Settings
    <3>3. CASE a \in {"Resv", "RptEna", "GI"}
      BY <2>4, <3>3 DEF Write, WriteOther, Settings
    <3> QED
      BY <2>2, <3>1, <3>2, <3>3, RcbClientAssumption
      DEF Attributes, Reserve
  <2> QED
    BY <2>3, <2>4 DEF Idle, Refused, Next, Others
<1> QED
  BY <1>1 DEF ClientNext, Rest, Begin, Fails, Next, Others, rvars

(***************************************************************************)
(* Clients that call enable() and disable() are clients of the block: all  *)
(* that is proved of it holds whatever they call, however their writes are *)
(* interleaved.                                                            *)
(***************************************************************************)
THEOREM CallsUseTheBlock == ClientSpec => Spec
<1>1. ClientInit => Init
  BY DEF ClientInit
<1> QED
  BY <1>1, TaskInit, TaskStep, CallsStep, PTL DEF ClientSpec, Spec

----------------------------------------------------------------------------
(* What the calls find and do                                              *)

\* The server still serves what c has sent.
On(c) == conn[c] \in {"open", "lost"}

\* The write of an attribute by enable() has had its effect.
Written(c, a) ==
    /\ a = "RptEna" => rcb.rptEna
    /\ a \in DOMAIN Wanted[c] => rcb.config[a] = Wanted[c][a]

(***************************************************************************)
(* ResvTms tells whether the block is taken or kept: all who take it write *)
(* ResvTms first, and nobody writes 0 to it but its owner.                 *)
(***************************************************************************)
ResvTmsSound ==
    IF Buffered
    THEN /\ resvTms \in {0, ResvTms}
         /\ resvTms # 0 <=> owner # None \/ reservedUntil # None
    ELSE resvTms = 0

(***************************************************************************)
(* From its first write on, a call of a connection still served owns the   *)
(* block, so that none of its writes has been undone by another.           *)
(***************************************************************************)
TaskSound(c) ==
    /\ conn[c] = "new" => task[c].call = "none" /\ task[c].result = "none"
    /\ task[c].call # "none" => task[c].result = "none"
    /\ task[c].call = "enable" /\ On(c) =>
          /\ Made(c) > 0 => owner = c
          /\ \A j \in 2 .. Made(c) : Written(c, EnableWrites(c)[j])
    /\ task[c].call = "disable" /\ On(c) => owner = c
    /\ task[c].result = "enabled" /\ conn[c] = "open" =>
          /\ owner = c
          /\ \A a \in DOMAIN Wanted[c] \cup {"RptEna"} : Written(c, a)
    /\ task[c].result = "disabled" => owner # c

ClientInv == Inv /\ TaskOK /\ ResvTmsSound /\ \A c \in Conns : TaskSound(c)

(***************************************************************************)
(* What a step that is not of c's call leaves to it.                       *)
(***************************************************************************)
Kept(c) ==
    /\ conn'[c] = "new" => conn[c] = "new"
    /\ conn'[c] = "open" => conn[c] \in {"new", "open"}
    /\ conn'[c] = "lost" => conn[c] \in {"open", "lost"}
    /\ owner' = c => owner = c
    /\ owner = c /\ On(c)' => /\ owner' = c
                              /\ rcb'.rptEna = rcb.rptEna
                              /\ rcb'.config = rcb.config

(***************************************************************************)
(* Such a step keeps what is known of the call.                            *)
(***************************************************************************)
LEMMA TaskKept ==
  ASSUME TaskOK, NEW c \in Conns, TaskSound(c), Kept(c), task'[c] = task[c]
  PROVE  TaskSound(c)'
<1>1. /\ Made(c)' = Made(c)
      /\ \A a : rcb'.rptEna = rcb.rptEna /\ rcb'.config = rcb.config
                /\ Written(c, a) => Written(c, a)'
  BY DEF Made, Written
<1>2. (conn[c] = "new" => task[c].call = "none" /\ task[c].result = "none")'
  BY DEF TaskSound, Kept
<1>3. (task[c].call # "none" => task[c].result = "none")'
  BY DEF TaskSound
<1>4. ASSUME task[c].call # "none", On(c)' PROVE On(c)
  BY <1>4 DEF TaskSound, Kept, On
<1>5. ASSUME (task[c].call = "enable" /\ On(c))'
      PROVE  (/\ Made(c) > 0 => owner = c
              /\ \A j \in 2 .. Made(c) : Written(c, EnableWrites(c)[j]))'
  <2>1. /\ Made(c) > 0 => owner = c
        /\ \A j \in 2 .. Made(c) : Written(c, EnableWrites(c)[j])
    BY <1>4, <1>5 DEF TaskSound
  <2>2. Made(c) > 0 => owner' = c /\ rcb'.rptEna = rcb.rptEna
                       /\ rcb'.config = rcb.config
    BY <1>5, <2>1 DEF Kept
  <2>3. Made(c) \in Nat
    BY <1>5, EnableShape DEF TaskOK
  <2>4. \A j \in 2 .. Made(c) : Written(c, EnableWrites(c)[j])'
    <3> SUFFICES ASSUME NEW j \in 2 .. Made(c)
                 PROVE  Written(c, EnableWrites(c)[j])'
      OBVIOUS
    <3>1. Made(c) > 0
      BY <2>3
    <3> QED
      BY <2>1, <2>2, <3>1 DEF Written
  <2> QED
    BY <1>1, <2>2, <2>4
<1>6. (task[c].call = "disable" /\ On(c) => owner = c)'
  BY <1>4 DEF TaskSound, Kept
<1>7. ASSUME (task[c].result = "enabled" /\ conn[c] = "open")'
      PROVE  (/\ owner = c
              /\ \A a \in DOMAIN Wanted[c] \cup {"RptEna"} : Written(c, a))'
  <2>1. conn[c] = "open"
    BY <1>7 DEF TaskSound, Kept
  <2>2. /\ owner = c
        /\ \A a \in DOMAIN Wanted[c] \cup {"RptEna"} : Written(c, a)
    BY <1>7, <2>1 DEF TaskSound
  <2> QED
    BY <1>1, <1>7, <2>2 DEF Kept, On
<1>8. (task[c].result = "disabled" => owner # c)'
  BY DEF TaskSound, Kept
<1> QED
  BY <1>2, <1>3, <1>5, <1>6, <1>7, <1>8 DEF TaskSound

(***************************************************************************)
(* Connections, timers and changes.                                        *)
(***************************************************************************)
LEMMA RestKeeps ==
  ASSUME ClientInv, Edition2, Rest
  PROVE  ResvTmsSound' /\ \A d \in Conns : Kept(d)
<1>1. /\ conn \in [Conns -> {"new", "open", "lost", "gone"}]
      /\ owner \in Conns \cup {None} /\ None \notin Conns
      /\ owner # None => conn[owner] \in {"open", "lost"} /\ reservedUntil = None
      /\ reservedUntil # None => Buffered
  BY ConnAssumption DEF ClientInv, Inv, TypeOK, ReservationSound
<1>2. ResvTms > 0 /\ ResvTms \in Nat
  BY RcbClientAssumption
<1>3. ASSUME NEW c \in Conns, Accept(c) \/ Lose(c) \/ DeadlinePasses(c)
      PROVE  ResvTmsSound' /\ \A d \in Conns : Kept(d)
  <2>1. UNCHANGED <<owner, reservedUntil, resvTms, rcb>>
    BY <1>3 DEF Accept, Lose, DeadlinePasses, reservation
  <2>2. ResvTmsSound'
    BY <2>1 DEF ClientInv, ResvTmsSound
  <2>3. \A d \in Conns : Kept(d)
    BY <1>1, <1>3, <2>1 DEF Kept, Accept, Lose, DeadlinePasses
  <2> QED
    BY <2>2, <2>3
<1>4. ASSUME NEW c \in Conns, Forget(c)
      PROVE  ResvTmsSound' /\ \A d \in Conns : Kept(d)
  <2>1. ResvTmsSound'
    BY <1>1, <1>2, <1>4, ReportingAssumption
    DEF Forget, KeepFor, Release, reservation, ClientInv, ResvTmsSound
  <2>2. \A d \in Conns : Kept(d)
    BY <1>1, <1>4
    DEF Forget, KeepFor, Release, reservation, Kept, On
  <2> QED
    BY <2>1, <2>2
<1>5. ASSUME NEW c \in Conns, Lapse(c)
      PROVE  ResvTmsSound' /\ \A d \in Conns : Kept(d)
  <2>1. ResvTmsSound'
    BY <1>1, <1>2, <1>5 DEF Lapse, Release, ClientInv, ResvTmsSound
  <2>2. \A d \in Conns : Kept(d)
    BY <1>1, <1>5 DEF Lapse, Release, Kept
  <2> QED
    BY <2>1, <2>2
<1>6. ASSUME UNCHANGED <<conn, reservation>>, SameMode(rcb', rcb)
      PROVE  ResvTmsSound' /\ \A d \in Conns : Kept(d)
  <2>1. ResvTmsSound'
    BY <1>6 DEF reservation, ClientInv, ResvTmsSound
  <2>2. \A d \in Conns : Kept(d)
    BY <1>1, <1>6 DEF reservation, SameMode, Kept
  <2> QED
    BY <2>1, <2>2
<1>8. CASE BufTmExpires
  BY <1>6, <1>8, BufTmInv DEF BufTmExpires, ClientInv, Inv
<1>9. ASSUME NEW due \in 1 .. MaxTimers, IntegrityFires(due)
      PROVE  ResvTmsSound' /\ \A d \in Conns : Kept(d)
  <2>1. rcb'.rptEna = rcb.rptEna /\ rcb'.config = rcb.config
    BY <1>9, IntegrityInv DEF ClientInv, Inv, TypeOK
  <2>2. UNCHANGED <<conn, reservation>>
    BY <1>9 DEF IntegrityFires
  <2>3. ResvTmsSound'
    BY <2>2 DEF reservation, ClientInv, ResvTmsSound
  <2>4. \A d \in Conns : Kept(d)
    BY <1>1, <2>1, <2>2 DEF reservation, Kept
  <2> QED
    BY <2>3, <2>4
<1>10. ASSUME NEW s \in Setters, NEW leaf \in Leaves, Assign(s, leaf)
       PROVE  ResvTmsSound' /\ \A d \in Conns : Kept(d)
  BY <1>6, <1>10 DEF Assign, SameMode
<1>11. ASSUME NEW s \in Setters, Notify(s)
       PROVE  ResvTmsSound' /\ \A d \in Conns : Kept(d)
  <2> DEFINE places == {p \in DOMAIN Members(rcb) :
                           setting[s][Members(rcb)[p]] > 0}
  <2>1. Current(rcb, places) \in Values
    BY CurrentType DEF ClientInv, Inv, TypeOK, BlockInv
  <2> HIDE DEF places
  <2>2. SameMode(Add(rcb, Current(rcb, places)), rcb)
    BY <2>1, AddInv DEF ClientInv, Inv
  <2>3. rcb' = rcb \/ rcb' = Add(rcb, Current(rcb, places))
    BY <1>11 DEF Notify, places
  <2>4. SameMode(rcb', rcb)
    BY <2>2, <2>3 DEF SameMode
  <2> QED
    BY <1>6, <1>11, <2>4 DEF Notify
<1> QED
  BY <1>3, <1>4, <1>5, <1>8, <1>9, <1>10, <1>11
  DEF Rest, Connection, LapseTimer, Timers, Change
(***************************************************************************)
(* What one write of c does when it is served: the others keep what they   *)
(* have, and what c has written stays.                                     *)
(***************************************************************************)
Effect(c, a) ==
    /\ conn' = conn /\ On(c)
    /\ task[c].call = "enable" =>
          /\ owner' = c
          /\ Written(c, a)'
          /\ \A b \in Attributes(c) : Written(c, b) => Written(c, b)'
    /\ task[c].call = "disable" =>
          owner' = IF a = Reserve THEN None ELSE c
    /\ \A d \in Conns \ {c} : Kept(d)
    /\ ResvTmsSound'

LEMMA WriteHasEffect ==
  ASSUME ClientInv, Edition2, NEW c \in Conns, task[c].call \in Calls,
         NEW a \in Attributes(c),
         task[c].call = "enable" /\ On(c) /\ a # Reserve => owner = c,
         task[c].call = "disable" /\ On(c) => owner = c,
         (~Missing(a) /\ Write(c, a)) \/ Idle(c, a)
  PROVE  Effect(c, a)
<1>1. /\ owner \in Conns \cup {None} /\ None \notin Conns
      /\ conn \in [Conns -> {"new", "open", "lost", "gone"}]
      /\ rcb \in Rcb /\ Buffered \in BOOLEAN
      /\ owner = None => ~rcb.rptEna
  BY ConnAssumption, ReportingAssumption
  DEF ClientInv, Inv, TypeOK, ReservationSound
<1>2. ResvTms > 0 /\ ResvTms \in Nat /\ DOMAIN Wanted[c] \subseteq Settings
  BY RcbClientAssumption
<1>3. ~Missing(Reserve) /\ Reserve \notin Settings
  BY DEF Missing, Reserve, Edition2, Settings
<1>4. ASSUME ~HeldByOther(c), conn' = conn, owner' \in {None, c}
      PROVE  \A d \in Conns \ {c} : Kept(d)
  <2>1. owner \in {None, c}
    BY <1>1, <1>4 DEF HeldByOther
  <2> QED
    BY <1>1, <1>4, <2>1 DEF Kept
<1>5. ASSUME ~HeldByOther(c), On(c), UNCHANGED <<conn, reservation>>,
             a # Reserve, SameMode(rcb', rcb),
             a = "RptEna" /\ task[c].call = "enable" => rcb.rptEna,
             a \notin Settings
      PROVE  Effect(c, a)
  <2>1. owner = c /\ owner' = owner
    BY <1>5 DEF reservation, Calls
  <2>2. \A d \in Conns \ {c} : Kept(d)
    BY <1>4, <1>5, <2>1
  <2>3. ResvTmsSound'
    BY <1>5 DEF ClientInv, ResvTmsSound, reservation
  <2>4. /\ task[c].call = "enable" => Written(c, a)'
        /\ \A b \in Attributes(c) : Written(c, b) => Written(c, b)'
    BY <1>2, <1>5 DEF Written, SameMode
  <2> QED
    BY <1>5, <2>1, <2>2, <2>3, <2>4 DEF Effect
<1>6. CASE Idle(c, a)
  <2>0. ~Missing(a)
    BY <1>2 DEF Missing, Reserve, Attributes, Settings, Edition2
  <2>1. a \in {"RptEna", "GI"} /\ a # Reserve /\ a \notin Settings
    BY <1>6, <2>0 DEF Idle, Reserve, Settings
  <2>2. /\ ~HeldByOther(c) /\ On(c) /\ UNCHANGED vars
        /\ a = "RptEna" => rcb.rptEna = (task[c].call = "enable")
    BY <1>6, <2>0, <2>1 DEF Idle, On
  <2> QED
    BY <1>5, <2>1, <2>2 DEF vars, SameMode
<1>7. CASE a = Reserve /\ Write(c, a)
  <2>1. Reserve = (IF Buffered THEN "ResvTms" ELSE "Resv")
    BY DEF Reserve
  <2>2. /\ conn' = conn /\ rcb' = rcb /\ MayWrite(c)
        /\ task[c].call = "enable" => owner' = c
        /\ task[c].call = "disable" => owner' = None
        /\ ResvTmsSound'
    <3>1. CASE Buffered
      <4>1. WriteResvTms(c, IF task[c].call = "enable" THEN ResvTms ELSE 0)
        BY <1>7, <2>1, <3>1 DEF Write, Settings
      <4>2. task[c].call = "disable" => owner = c
        BY <4>1 DEF WriteResvTms, MayWrite, On
      <4> QED
        BY <1>1, <1>2, <3>1, <4>1, <4>2
        DEF WriteResvTms, Take, Release, ResvTmsSound, Calls
    <3>2. CASE ~Buffered
      <4>1. WriteResv(c, task[c].call = "enable")
        BY <1>7, <2>1, <3>2 DEF Write, Settings
      <4> QED
        BY <1>1, <3>2, <4>1
        DEF WriteResv, Take, Release, ClientInv, ResvTmsSound, Calls
    <3> QED
      BY <3>1, <3>2
  <2>3. owner' \in {None, c}
    BY <2>2 DEF Calls
  <2>4. On(c) /\ \A d \in Conns \ {c} : Kept(d)
    <3>1. On(c) /\ ~HeldByOther(c)
      BY <2>2 DEF MayWrite, On
    <3> QED
      BY <1>4, <2>2, <2>3, <3>1
  <2>5. Written(c, a)' /\ \A b \in Attributes(c) : Written(c, b) => Written(c, b)'
    BY <1>2, <1>3, <1>7, <2>1, <2>2 DEF Written
  <2> QED
    BY <1>7, <2>2, <2>4, <2>5 DEF Effect
<1>8. CASE a # Reserve /\ Write(c, a)
  <2>0. \/ a = "RptEna" /\ task[c].call = "enable" /\ Enable(c)
        \/ a = "RptEna" /\ task[c].call = "disable" /\ Disable(c)
        \/ a = "GI" /\ WriteGI(c)
        \/ a \in DOMAIN Wanted[c] /\ WriteConfig(c, a, Wanted[c][a])
    BY <1>2, <1>8 DEF Write, Attributes, Settings, Calls, Reserve
  <2>1. MayWrite(c) /\ On(c) /\ ~HeldByOther(c)
    BY <2>0 DEF Enable, Disable, WriteGI, WriteConfig, MayWrite, On
  <2>2. owner = c
    BY <1>8, <2>1 DEF Calls
  <2>3. CASE a = "RptEna" /\ task[c].call = "enable" /\ Enable(c)
    <3>0. rcb.integrityTimers # 1 .. MaxTimers /\ rcb.integrityDue = 0
      BY <2>3 DEF Enable, ClientInv, Inv, ReservationSound
    <3>1. rcb'.rptEna /\ rcb'.config = rcb.config
      BY <2>3, <3>0, EnabledInv DEF Enable, ClientInv, Inv
    <3>2. conn' = conn /\ owner' = c /\ resvTms' = resvTms
      BY <2>3 DEF Enable, Take
    <3>3. \A d \in Conns \ {c} : Kept(d)
      BY <1>4, <2>1, <3>2
    <3>4. ResvTmsSound'
      BY <1>1, <2>2, <3>2 DEF ClientInv, ResvTmsSound
    <3>5. /\ Written(c, a)'
          /\ \A b \in Attributes(c) : Written(c, b) => Written(c, b)'
      BY <1>2, <2>3, <3>1 DEF Written, Settings
    <3> QED
      BY <2>1, <2>3, <3>2, <3>3, <3>4, <3>5 DEF Effect
  <2>4. CASE a = "RptEna" /\ task[c].call = "disable" /\ Disable(c)
    <3>1. UNCHANGED <<conn, reservation>>
      BY <2>4 DEF Disable
    <3>2. \A d \in Conns \ {c} : Kept(d)
      BY <1>4, <2>1, <2>2, <3>1 DEF reservation
    <3>3. ResvTmsSound'
      BY <3>1 DEF ClientInv, ResvTmsSound, reservation
    <3> QED
      BY <1>8, <2>1, <2>2, <2>4, <3>1, <3>2, <3>3 DEF Effect, reservation
  <2>5. CASE a = "GI" /\ WriteGI(c)
    <3>1. BlockInv(Flush(rcb)) /\ SameMode(Flush(rcb), rcb)
      BY FlushInv DEF ClientInv, Inv
    <3>2. SameMode(rcb', Flush(rcb))
      BY <2>5, <3>1, ReportAllInv DEF WriteGI, ClientInv, Inv, TypeOK
    <3>3. SameMode(rcb', rcb)
      BY <3>1, <3>2 DEF SameMode
    <3> QED
      BY <1>5, <1>8, <2>1, <2>5, <3>3 DEF WriteGI, Settings
  <2>6. CASE a \in DOMAIN Wanted[c] /\ WriteConfig(c, a, Wanted[c][a])
    <3>1. /\ UNCHANGED <<conn, reservation>>
          /\ rcb' = [rcb EXCEPT !.config[a] = Wanted[c][a]]
      BY <2>6 DEF WriteConfig
    <3>2. rcb.config \in Config /\ a \in {"DatSet", "BufTm", "TrgOps", "IntgPd"}
      BY <1>1, <1>2, <2>6 DEF Rcb, Settings
    <3>3. /\ rcb'.rptEna = rcb.rptEna
          /\ rcb'.config = [rcb.config EXCEPT ![a] = Wanted[c][a]]
      BY <1>1, <3>1 DEF Rcb
    <3>4. rcb'.config[a] = Wanted[c][a]
          /\ \A b \in Settings \ {a} : rcb'.config[b] = rcb.config[b]
      BY <3>2, <3>3 DEF Config, Settings
    <3>5. a # "RptEna"
      BY <1>2, <2>6 DEF Settings
    <3>6. /\ Written(c, a)'
          /\ \A b \in Attributes(c) : Written(c, b) => Written(c, b)'
      BY <1>2, <3>3, <3>4, <3>5 DEF Written
    <3>7. \A d \in Conns \ {c} : Kept(d)
      BY <1>4, <2>1, <2>2, <3>1 DEF reservation
    <3>8. ResvTmsSound'
      BY <3>1 DEF ClientInv, ResvTmsSound, reservation
    <3> QED
      BY <1>8, <2>1, <2>2, <3>1, <3>6, <3>7, <3>8 DEF Effect, reservation
  <2> QED
    BY <2>0, <2>3, <2>4, <2>5, <2>6
<1> QED
  BY <1>6, <1>7, <1>8

(***************************************************************************)
(* A call that has ended.                                                  *)
(***************************************************************************)
LEMMA CallEnds ==
  ASSUME TaskOK, NEW c \in Conns, NEW result, Ends(c, result)
  PROVE  /\ task'[c].call = "none" /\ task'[c].result = result
         /\ \A d \in Conns \ {c} : task'[d] = task[d]
BY DEF TaskOK, Ends

(***************************************************************************)
(* One write of a call, refused or not, and what the call returns with its *)
(* last.                                                                   *)
(***************************************************************************)
LEMMA ClientWrites ==
  ASSUME ClientInv, Edition2, NEW c \in Conns, Step(c)
  PROVE  ResvTmsSound' /\ \A d \in Conns : TaskSound(d)'
<1> DEFINE rest == Tail(task[c].todo)
           w == EnableWrites(c)
<1>1. /\ task[c].call # "none" /\ TaskOK /\ TaskSound(c)
      /\ task \in [Conns -> Task]
  BY DEF Step, ClientInv, TaskOK
<1>0. PICK a \in Attributes(c) : a = Head(task[c].todo)
  BY <1>1, NextWrite
<1>2. /\ task[c].call \in Calls
      /\ task[c].call = "enable" =>
            /\ Made(c) \in 0 .. Len(w) - 1
            /\ a = w[Made(c) + 1]
            /\ Len(rest) = Len(w) - (Made(c) + 1)
            /\ rest = <<>> <=> Made(c) + 1 = Len(w)
      /\ task[c].call = "disable" =>
            \/ a = "RptEna" /\ rest = <<Reserve>>
            \/ a = Reserve /\ rest = <<>>
  BY <1>0, <1>1, NextWrite
<1>3. /\ Len(w) \in Nat \ {0} /\ w[1] = Reserve
      /\ \A j \in 2 .. Len(w) : w[j] \in Attributes(c)
      /\ \A b \in DOMAIN Wanted[c] \cup {"RptEna"} :
            \E j \in 2 .. Len(w) : w[j] = b
  BY EnableShape
<1>4. \/ /\ (~Missing(a) /\ Write(c, a)) \/ Idle(c, a)
         /\ \/ conn[c] # "open" /\ Ends(c, "failed")
            \/ conn[c] = "open" /\ rest = <<>> /\ Ends(c, Done(c))
            \/ rest # <<>> /\ task' = [task EXCEPT ![c].todo = rest]
      \/ Refused(c, a) /\ Ends(c, "failed")
  BY <1>0 DEF Step
<1> HIDE DEF rest, w
<1>5. CASE Refused(c, a) /\ Ends(c, "failed")
  <2>1. UNCHANGED <<conn, owner, resvTms, reservedUntil, rcb>>
    BY <1>5 DEF Refused, vars, reservation
  <2>2. ResvTmsSound'
    BY <2>1 DEF ClientInv, ResvTmsSound
  <2>3. TaskSound(c)'
    BY <1>1, <1>5, <2>1, CallEnds DEF TaskSound
  <2>4. \A d \in Conns \ {c} : TaskSound(d)'
    BY <1>1, <1>5, <2>1, CallEnds, TaskKept DEF Kept, ClientInv
  <2> QED
    BY <2>2, <2>3, <2>4
<1>6. CASE (~Missing(a) /\ Write(c, a)) \/ Idle(c, a)
  <2>1. task[c].call = "enable" /\ On(c) /\ a # Reserve => owner = c
    BY <1>1, <1>2, <1>3 DEF TaskSound
  <2>2. task[c].call = "disable" /\ On(c) => owner = c
    BY <1>1 DEF TaskSound
  <2>3. Effect(c, a)
    BY <1>2, <1>6, <2>1, <2>2, WriteHasEffect
  <2>4. \A d \in Conns \ {c} : task'[d] = task[d]
    BY <1>1, <1>4, CallEnds DEF Ends
  <2>5. \A d \in Conns \ {c} : TaskSound(d)'
    BY <2>3, <2>4, TaskKept DEF Effect, ClientInv
  <2>6. conn' = conn /\ On(c) /\ On(c)'
    BY <2>3 DEF Effect, On
  <2>7. ASSUME task[c].call = "enable"
        PROVE  /\ owner' = c
               /\ \A j \in 2 .. Made(c) + 1 : Written(c, w[j])'
    <3>1. /\ owner' = c /\ Written(c, a)'
          /\ \A b \in Attributes(c) : Written(c, b) => Written(c, b)'
      BY <2>3, <2>7 DEF Effect
    <3>2. \A j \in 2 .. Made(c) : Written(c, w[j])
      BY <1>1, <2>6, <2>7 DEF TaskSound, w
    <3>3. ASSUME NEW j \in 2 .. Made(c) + 1 PROVE Written(c, w[j])'
      <4>1. CASE j = Made(c) + 1
        <5>1. a = w[j]
          BY <1>2, <2>7, <4>1
        <5> QED
          BY <3>1, <5>1 DEF Written, w
      <4>2. CASE j # Made(c) + 1
        <5>1. j \in 2 .. Made(c) /\ j \in 2 .. Len(w)
          BY <1>2, <1>3, <2>7, <4>2
        <5>2. Written(c, w[j]) /\ w[j] \in Attributes(c)
          BY <1>3, <3>2, <5>1
        <5> QED
          BY <3>1, <5>2
      <4> QED
        BY <4>1, <4>2
    <3> QED
      BY <3>1, <3>3
  <2>8. CASE conn[c] # "open" /\ Ends(c, "failed")
    <3>1. TaskSound(c)'
      BY <1>1, <2>6, <2>8, CallEnds DEF TaskSound, On
    <3> QED
      BY <2>3, <2>5, <3>1 DEF Effect
  <2>9. CASE conn[c] = "open" /\ rest = <<>> /\ Ends(c, Done(c))
    <3>1. task'[c].call = "none" /\ task'[c].result = Done(c)
      BY <1>1, <2>9, CallEnds
    <3>2. CASE task[c].call = "enable"
      <4>1. Done(c) = "enabled"
        BY <3>2 DEF Done
      <4>2. \A b \in DOMAIN Wanted[c] \cup {"RptEna"} : Written(c, b)'
        <5> SUFFICES ASSUME NEW b \in DOMAIN Wanted[c] \cup {"RptEna"}
                     PROVE  Written(c, b)'
          OBVIOUS
        <5>1. PICK j \in 2 .. Len(w) : w[j] = b
          BY <1>3
        <5>2. Made(c) + 1 = Len(w)
          BY <1>2, <2>9, <3>2
        <5>3. j \in 2 .. Made(c) + 1
          BY <5>2
        <5>4. Written(c, w[j])'
          BY <2>7, <3>2, <5>3
        <5> QED
          BY <5>1, <5>4
      <4>3. owner' = c
        BY <2>7, <3>2
      <4>4. TaskSound(c)'
        BY <2>6, <2>9, <3>1, <4>1, <4>2, <4>3 DEF TaskSound
      <4> QED
        BY <2>3, <2>5, <4>4 DEF Effect
    <3>3. CASE task[c].call = "disable"
      <4>1. Done(c) = "disabled"
        BY <3>3 DEF Done
      <4>2. a = Reserve
        BY <1>2, <2>9, <3>3
      <4>3. owner' = None /\ None \notin Conns
        BY <2>3, <3>3, <4>2, ConnAssumption DEF Effect
      <4>4. TaskSound(c)'
        BY <2>6, <2>9, <3>1, <4>1, <4>3 DEF TaskSound
      <4> QED
        BY <2>3, <2>5, <4>4 DEF Effect
    <3> QED
      BY <1>2, <3>2, <3>3 DEF Calls
  <2>10. CASE rest # <<>> /\ task' = [task EXCEPT ![c].todo = rest]
    <3>1. /\ task'[c].call = task[c].call /\ task'[c].result = task[c].result
          /\ task'[c].todo = rest
      BY <1>1, <2>10 DEF Task
    <3>2. task[c].result = "none" /\ conn[c] # "new"
      BY <1>1, <2>6 DEF TaskSound, On
    <3>3. CASE task[c].call = "enable"
      <4>1. Made(c)' = Made(c) + 1
        BY <1>2, <1>3, <3>1, <3>3 DEF Made, w
      <4>2. \A j \in 2 .. Made(c)' : Written(c, EnableWrites(c)[j])'
        BY <2>7, <3>3, <4>1 DEF w
      <4>3. owner' = c
        BY <2>7, <3>3
      <4>4. TaskSound(c)'
        BY <2>6, <3>1, <3>2, <3>3, <4>2, <4>3 DEF TaskSound
      <4> QED
        BY <2>3, <2>5, <4>4 DEF Effect
    <3>4. CASE task[c].call = "disable"
      <4>1. a # Reserve
        BY <1>2, <2>10, <3>4 DEF Reserve
      <4>2. owner' = c
        BY <2>3, <3>4, <4>1 DEF Effect
      <4>3. TaskSound(c)'
        BY <2>6, <3>1, <3>2, <3>4, <4>2 DEF TaskSound
      <4> QED
        BY <2>3, <2>5, <4>3 DEF Effect
    <3> QED
      BY <1>2, <3>3, <3>4 DEF Calls
  <2> QED
    BY <1>4, <1>5, <2>8, <2>9, <2>10
<1> QED
  BY <1>4, <1>5, <1>6

(***************************************************************************)
(* The invariant is inductive.                                             *)
(***************************************************************************)
LEMMA ClientInvInit == ClientInit => ClientInv
<1> SUFFICES ASSUME ClientInit PROVE ClientInv
  OBVIOUS
<1>1. Inv /\ TaskOK
  BY InvInit, TaskInit DEF ClientInit
<1>2. ResvTmsSound
  BY DEF ClientInit, Init, ResvTmsSound
<1>3. \A c \in Conns : TaskSound(c)
  BY DEF ClientInit, Init, TaskSound, On
<1> QED
  BY <1>1, <1>2, <1>3 DEF ClientInv

LEMMA ClientInvStep ==
  ASSUME ClientInv, Edition2, [ClientNext]_rvars
  PROVE  ClientInv'
<1>1. TaskOK'
  BY TaskStep DEF ClientInv
<1>2. Inv'
  <2>1. [Next]_vars /\ Inv
    BY CallsStep DEF ClientInv
  <2>2. CASE UNCHANGED vars
    BY <2>1, <2>2 DEF Inv, TypeOK, BlockInv, ReservationSound, vars, reservation
  <2> QED
    BY <2>1, <2>2, WriteStep, ConnectionStep, ReportStep DEF Next, Others
<1>3. ResvTmsSound' /\ \A d \in Conns : TaskSound(d)'
  <2>1. CASE Rest
    <3>1. ResvTmsSound' /\ \A d \in Conns : Kept(d)
      BY <2>1, RestKeeps
    <3>2. \A d \in Conns : task'[d] = task[d]
      BY <2>1 DEF Rest
    <3> QED
      BY <3>1, <3>2, TaskKept DEF ClientInv
  <2>2. ASSUME NEW c \in Conns, Step(c)
        PROVE  ResvTmsSound' /\ \A d \in Conns : TaskSound(d)'
    BY <2>2, ClientWrites
  <2>3. ASSUME UNCHANGED vars, NEW c \in Conns,
               \A d \in Conns \ {c} : task'[d] = task[d], TaskSound(c)'
        PROVE  ResvTmsSound' /\ \A d \in Conns : TaskSound(d)'
    <3>1. UNCHANGED <<conn, owner, resvTms, reservedUntil, rcb>>
      BY <2>3 DEF vars, reservation
    <3>2. ResvTmsSound'
      BY <3>1 DEF ClientInv, ResvTmsSound
    <3>3. \A d \in Conns : Kept(d)
      BY <3>1 DEF Kept
    <3>4. \A d \in Conns \ {c} : TaskSound(d)'
      BY <2>3, <3>3, TaskKept DEF ClientInv
    <3> QED
      BY <2>3, <3>2, <3>4
  <2>4. ASSUME NEW c \in Conns, Begin(c)
        PROVE  ResvTmsSound' /\ \A d \in Conns : TaskSound(d)'
    <3>1. /\ TaskSound(c) /\ task \in [Conns -> Task] /\ conn[c] = "open"
          /\ UNCHANGED vars
      BY <2>4 DEF Begin, ClientInv, TaskOK
    <3>2. UNCHANGED <<conn, owner, rcb>>
      BY <3>1 DEF vars, reservation
    <3>3. \A d \in Conns \ {c} : task'[d] = task[d]
      BY <2>4, <3>1 DEF Begin
    <3>4. \/ /\ task'[c].call = "enable" /\ task'[c].result = "none"
             /\ task'[c].todo = EnableWrites(c)
          \/ /\ task'[c].call = "disable" /\ task'[c].result = "none"
             /\ task[c].result = "enabled"
      BY <2>4, <3>1 DEF Begin
    <3>5. Len(EnableWrites(c)) \in Nat
      BY EnableShape
    <3>6. task'[c].call = "enable" => Made(c)' = 0
      BY <3>4, <3>5 DEF Made
    <3>7. (task[c].call = "enable" /\ On(c))' =>
             (/\ Made(c) > 0 => owner = c
              /\ \A j \in 2 .. Made(c) : Written(c, EnableWrites(c)[j]))'
      BY <3>6
    <3>8. (task[c].call = "disable" /\ On(c) => owner = c)'
      BY <3>1, <3>2, <3>4 DEF TaskSound
    <3>9. TaskSound(c)'
      BY <3>1, <3>2, <3>4, <3>7, <3>8 DEF TaskSound
    <3> QED
      BY <2>3, <3>1, <3>3, <3>9
  <2>5. ASSUME NEW c \in Conns, Fails(c)
        PROVE  ResvTmsSound' /\ \A d \in Conns : TaskSound(d)'
    <3>1. /\ TaskOK /\ TaskSound(c) /\ task[c].call # "none"
          /\ UNCHANGED vars /\ Ends(c, "failed")
      BY <2>5 DEF Fails, ClientInv
    <3>2. conn' = conn
      BY <3>1 DEF vars
    <3>3. /\ task'[c].call = "none" /\ task'[c].result = "failed"
          /\ \A d \in Conns \ {c} : task'[d] = task[d]
      BY <3>1, CallEnds
    <3>4. TaskSound(c)'
      BY <3>1, <3>2, <3>3 DEF TaskSound
    <3> QED
      BY <2>3, <3>1, <3>3, <3>4
  <2>6. CASE UNCHANGED rvars
    <3>1. UNCHANGED vars /\ task' = task
      BY <2>6 DEF rvars
    <3>2. \A d \in Conns : Kept(d)
      BY <3>1 DEF Kept, vars, reservation
    <3>3. ResvTmsSound'
      BY <3>1 DEF ClientInv, ResvTmsSound, vars, reservation
    <3> QED
      BY <3>1, <3>2, <3>3, TaskKept DEF ClientInv
  <2> QED
    BY <2>1, <2>2, <2>4, <2>5, <2>6 DEF ClientNext
<1> QED
  BY <1>1, <1>2, <1>3 DEF ClientInv

(***************************************************************************)
(* It holds of every behaviour with a block that can be reserved.          *)
(***************************************************************************)
THEOREM ClientInvariance ==
  ASSUME Edition2
  PROVE  ClientSpec => []ClientInv
<1>1. ClientInv /\ [ClientNext]_rvars => ClientInv'
  BY ClientInvStep
<1> QED
  BY <1>1, ClientInvInit, PTL DEF ClientSpec

(***************************************************************************)
(* read_status() tells whose the block is, in any interleaving of the      *)
(* clients' writes.                                                        *)
(***************************************************************************)
THEOREM StatusIsAlwaysTrue ==
  ASSUME Edition2
  PROVE  ClientSpec => []StatusIsTrue
<1>1. ClientInv => StatusIsTrue
  <2> SUFFICES ASSUME ClientInv PROVE StatusIsTrue
    OBVIOUS
  <2>1. /\ Buffered \in BOOLEAN /\ rcb.rptEna \in BOOLEAN /\ resv \in BOOLEAN
        /\ None \notin Conns /\ ResvTms \in Nat \ {0}
    BY ReportingAssumption, ConnAssumption, RcbClientAssumption
    DEF ClientInv, Inv, TypeOK, Rcb
  <2>2. Free <=> owner = None /\ reservedUntil = None
    BY <2>1 DEF Free, ClientInv, Inv, ReservationSound, ResvTmsSound
  <2>3. reservedUntil # None => AvailableTo(Address[reservedUntil])
    BY <2>1
    DEF AvailableTo, ClientInv, Inv, ReservationSound, ResvTmsSound
  <2> QED
    BY <2>2, <2>3 DEF StatusIsTrue
<1> QED
  BY <1>1, ClientInvariance, PTL

(***************************************************************************)
(* enable() and disable() have done what they return for, in any           *)
(* interleaving of the clients' writes.                                    *)
(***************************************************************************)
THEOREM CallsDoAsAsked ==
  ASSUME Edition2
  PROVE  ClientSpec => []DoneAsAsked
<1>1. ClientInv => DoneAsAsked
  BY DEF ClientInv, TaskSound, Written, DoneAsAsked, EnabledAsAsked, DisableFrees
<1> QED
  BY <1>1, ClientInvariance, PTL

=============================================================================
