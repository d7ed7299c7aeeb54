------------------------- MODULE ControlPlaneProofs -------------------------
(***************************************************************************)
(* Proofs about ControlPlane for any number of calls, agents and events    *)
(* and any size of the producer's buffer.                                  *)
(***************************************************************************)
EXTENDS ControlPlane, SequenceTheorems, FiniteSetTheorems, TLAPS

-----------------------------------------------------------------------------
(* Sequences and what they hold. *)

LEMMA ToSetAppend ==
  ASSUME NEW S, NEW s \in Seq(S), NEW x \in S
  PROVE  ToSet(Append(s, x)) = ToSet(s) \cup {x}
<1>1. /\ DOMAIN Append(s, x) = 1..Len(s) + 1
      /\ DOMAIN s = 1..Len(s)
      /\ Len(s) \in Nat
      /\ \A i \in 1..Len(s) : Append(s, x)[i] = s[i]
      /\ Append(s, x)[Len(s) + 1] = x
  BY AppendProperties, LenProperties
<1> QED
  BY <1>1 DEF ToSet

LEMMA ToSetConcat ==
  ASSUME NEW S, NEW s \in Seq(S), NEW t \in Seq(S)
  PROVE  ToSet(s \o t) = ToSet(s) \cup ToSet(t)
<1>1. ToSet(s) = Range(s) /\ ToSet(t) = Range(t) /\ ToSet(s \o t) = Range(s \o t)
  BY DEF ToSet, Range
<1>2. Range(s \o t) = Range(s) \cup Range(t)
  BY RangeConcatenation
<1> QED
  BY <1>1, <1>2

LEMMA ToSetTail ==
  ASSUME NEW S, NEW s \in Seq(S), s # <<>>
  PROVE  ToSet(s) = {Head(s)} \cup ToSet(Tail(s))
<1>1. /\ DOMAIN s = 1..Len(s) /\ DOMAIN Tail(s) = 1..Len(s) - 1
      /\ Len(s) \in Nat \ {0}
      /\ Head(s) = s[1]
      /\ \A i \in 1..Len(s) - 1 : Tail(s)[i] = s[i + 1]
  BY HeadTailProperties, LenProperties, EmptySeq
<1>2. ToSet(s) \subseteq {Head(s)} \cup ToSet(Tail(s))
  <2>1. ASSUME NEW i \in 1..Len(s), i # 1
        PROVE  s[i] \in ToSet(Tail(s))
    <3>1. i - 1 \in 1..Len(s) - 1 /\ (i - 1) + 1 = i
      BY <1>1, <2>1
    <3>2. Tail(s)[i - 1] = s[i]
      BY <1>1, <3>1
    <3> QED
      BY <1>1, <3>1, <3>2 DEF ToSet
  <2> QED
    BY <1>1, <2>1 DEF ToSet
<1>3. {Head(s)} \cup ToSet(Tail(s)) \subseteq ToSet(s)
  <2>1. \A i \in 1..Len(s) - 1 : i + 1 \in 1..Len(s)
    BY <1>1
  <2> QED
    BY <1>1, <2>1 DEF ToSet
<1> QED
  BY <1>2, <1>3

\* A sequence cut after its first n elements.
LEMMA ToSetCut ==
  ASSUME NEW S, NEW s \in Seq(S), NEW n \in 0..Len(s)
  PROVE  /\ SubSeq(s, 1, n) \in Seq(S)
         /\ SubSeq(s, n + 1, Len(s)) \in Seq(S)
         /\ ToSet(s) = ToSet(SubSeq(s, 1, n)) \cup ToSet(SubSeq(s, n + 1, Len(s)))
<1>1. Len(s) \in Nat /\ DOMAIN s = 1..Len(s) /\ n \in Nat /\ n <= Len(s)
  BY LenProperties
<1>2. /\ SubSeq(s, 1, n) \in Seq(S)
      /\ DOMAIN SubSeq(s, 1, n) = 1..n
      /\ \A i \in 1..n : SubSeq(s, 1, n)[i] = s[i]
  BY <1>1, SMTT(30)
<1>3. /\ SubSeq(s, n + 1, Len(s)) \in Seq(S)
      /\ DOMAIN SubSeq(s, n + 1, Len(s)) = 1..Len(s) - n
      /\ \A i \in 1..Len(s) - n : SubSeq(s, n + 1, Len(s))[i] = s[i + n]
  BY <1>1, SMTT(30)
<1>4. \A i \in 1..Len(s) - n : i + n \in 1..Len(s)
  BY <1>1
<1>5. \A i \in 1..Len(s) : i > n => i - n \in 1..Len(s) - n /\ (i - n) + n = i
  BY <1>1
<1>6. ToSet(s) \subseteq ToSet(SubSeq(s, 1, n)) \cup ToSet(SubSeq(s, n + 1, Len(s)))
  <2>1. ASSUME NEW i \in 1..Len(s), i <= n
        PROVE  s[i] \in ToSet(SubSeq(s, 1, n))
    <3>1. i \in 1..n
      BY <1>1, <2>1
    <3> QED
      BY <1>2, <3>1 DEF ToSet
  <2>2. ASSUME NEW i \in 1..Len(s), i > n
        PROVE  s[i] \in ToSet(SubSeq(s, n + 1, Len(s)))
    <3>1. s[i] = SubSeq(s, n + 1, Len(s))[i - n] /\ i - n \in 1..Len(s) - n
      BY <1>3, <1>5, <2>2
    <3> QED
      BY <1>3, <3>1 DEF ToSet
  <2>3. \A i \in 1..Len(s) : i <= n \/ i > n
    BY <1>1
  <2> QED
    BY <1>1, <2>1, <2>2, <2>3 DEF ToSet
<1>7. ToSet(SubSeq(s, 1, n)) \subseteq ToSet(s)
  BY <1>1, <1>2 DEF ToSet
<1>8. ToSet(SubSeq(s, n + 1, Len(s))) \subseteq ToSet(s)
  BY <1>1, <1>3, <1>4 DEF ToSet
<1> QED
  BY <1>2, <1>3, <1>6, <1>7, <1>8

-----------------------------------------------------------------------------
(* The invariant. *)

\* The two halves of TypeOK: what the calls have, and what Kafka has.
SessionsTyped ==
  /\ call \in [AnyCall -> CallStates]
  /\ cert \in [AnyCall -> Spellings \cup {NoName}]
  /\ certCN \in [AnyCall -> Keys \cup {NoName}]
  /\ accepted \in [Calls -> Nat]
  /\ rejected \in [Calls -> Nat]
  /\ handled \in [AnyCall -> Seq(Messages)]
KafkaTyped ==
  /\ buffer \in [Keys -> Seq(Events)]
  /\ \A key \in Keys : Len(buffer[key]) <= BufferMemory
  /\ topic \in [Keys -> Seq(Events)]
  /\ failed \subseteq Events
  /\ forgotten \subseteq Events

\* An open call has a certificate, and its context the name in it.
NameInv ==
  \A c \in AnyCall : call[c] = "open" =>
    cert[c] # NoName /\ certCN[c] = ToLowerCase(cert[c])

\* CertifiedOnly is kept by a step only if a new event cannot have been
\* published before: everything published was in some call.
CertInv == CertifiedOnly /\ Published \subseteq Sent

IInv == TypeOK /\ NameInv /\ CertInv

LEMMA TypeSplit == TypeOK <=> SessionsTyped /\ KafkaTyped
BY DEF TypeOK, SessionsTyped, KafkaTyped

\* What toLowerCase makes of a name is a key, and tells two names apart.
LEMMA LowerCase ==
  ASSUME NEW s \in Spellings
  PROVE  /\ ToLowerCase(s) \in Keys
         /\ ToLowerCase(s).name = s.name
         /\ \A t \in Spellings : ToLowerCase(t) = ToLowerCase(s) <=> t.name = s.name
BY DEF ToLowerCase, Keys, Spellings

LEMMA InitHolds == Init => IInv
<1> SUFFICES ASSUME Init PROVE IInv
  OBVIOUS
<1>1. <<>> \in Seq(Events) /\ <<>> \in Seq(Messages) /\ Len(<<>>) = 0
      /\ <<>> \o <<>> = <<>> /\ DOMAIN <<>> = {}
  OBVIOUS
<1>2. TypeOK
  BY <1>1, ControlPlaneAssumption DEF Init, TypeOK, CallStates
<1>3. NameInv
  BY DEF Init, NameInv
<1>4. \A key \in Keys : ToSet(Partition(key)) = {}
  <2>1. ToSet(<<>> \o <<>>) = {}
    BY <1>1 DEF ToSet
  <2> QED
    BY <2>1 DEF Init, Partition
<1>5. \A c \in AnyCall : ToSet(handled[c]) = {}
  <2>1. ToSet(<<>>) = {}
    BY <1>1 DEF ToSet
  <2> QED
    BY <2>1 DEF Init
<1>6. Published = {}
  BY <1>4 DEF Published, Init
<1> QED
  BY <1>2, <1>3, <1>4, <1>5, <1>6 DEF IInv, CertInv, CertifiedOnly

-----------------------------------------------------------------------------
(* The producer. *)

\* A step publishes the events in S under the key, and moves no other event
\* into a partition.
Gains(key, S) ==
  /\ KafkaTyped'
  /\ Published' = Published \cup S
  /\ \A k \in Keys : ToSet(Partition(k))' \subseteq
                       ToSet(Partition(k)) \cup {e \in S : k = key}

LEMMA PartitionHolds ==
  ASSUME KafkaTyped, NEW key \in Keys
  PROVE  ToSet(Partition(key)) = ToSet(topic[key]) \cup ToSet(buffer[key])
<1>1. topic[key] \in Seq(Events) /\ buffer[key] \in Seq(Events)
  BY DEF KafkaTyped
<1> QED
  BY <1>1, ToSetConcat DEF Partition

LEMMA PartitionHoldsNext ==
  ASSUME KafkaTyped', NEW key \in Keys
  PROVE  ToSet(Partition(key))' = ToSet(topic'[key]) \cup ToSet(buffer'[key])
<1>1. topic'[key] \in Seq(Events) /\ buffer'[key] \in Seq(Events)
  BY DEF KafkaTyped
<1>2. ToSet(topic'[key] \o buffer'[key]) = ToSet(topic'[key]) \cup ToSet(buffer'[key])
  BY <1>1, ToSetConcat
<1> QED
  BY <1>2 DEF Partition, ToSet

LEMMA NothingGained ==
  ASSUME KafkaTyped, UNCHANGED kafka, NEW key
  PROVE  Gains(key, {})
BY DEF KafkaTyped, kafka, Gains, Published, Partition, ToSet

LEMMA PublishGains ==
  ASSUME KafkaTyped, NEW key \in Keys, NEW e \in Events,
         Publish(key, e) \/ SendThrows(e)
  PROVE  Gains(key, {e})
<1>1. CASE Enqueue(key, e)
  <2>1. /\ buffer[key] \in Seq(Events)
        /\ Append(buffer[key], e) \in Seq(Events)
        /\ Len(Append(buffer[key], e)) <= BufferMemory
    BY <1>1, ControlPlaneAssumption, SMTT(30) DEF Enqueue, HasRoom, KafkaTyped
  <2>2. /\ buffer'[key] = Append(buffer[key], e)
        /\ \A k \in Keys : k # key => buffer'[k] = buffer[k]
        /\ buffer' \in [Keys -> Seq(Events)]
        /\ UNCHANGED <<topic, failed, forgotten>>
    BY <1>1, <2>1 DEF Enqueue, InCallOrder, KafkaTyped
  <2>3. KafkaTyped'
    BY <2>1, <2>2 DEF KafkaTyped
  <2>4. ToSet(buffer'[key]) = ToSet(buffer[key]) \cup {e}
    BY <2>1, <2>2, ToSetAppend
  <2>5. ToSet(Partition(key))' = ToSet(Partition(key)) \cup {e}
    BY <2>2, <2>3, <2>4, PartitionHolds, PartitionHoldsNext
  <2>6. \A k \in Keys : k # key => ToSet(Partition(k))' = ToSet(Partition(k))
    BY <2>2, <2>3, PartitionHolds, PartitionHoldsNext
  <2>7. Published' = Published \cup {e}
    BY <2>2, <2>5, <2>6 DEF Published
  <2> QED
    BY <2>3, <2>5, <2>6, <2>7 DEF Gains
<1>2. CASE NotSerialised(e) \/ SendThrows(e)
  <2>1. failed' = failed \cup {e} /\ UNCHANGED <<buffer, topic, forgotten>>
    BY <1>2 DEF NotSerialised, SendThrows
  <2>2. KafkaTyped'
    BY <2>1 DEF KafkaTyped
  <2>3. \A k \in Keys : ToSet(Partition(k))' = ToSet(Partition(k))
    BY <2>1 DEF Partition, ToSet
  <2>4. Published' = Published \cup {e}
    BY <2>1, <2>3 DEF Published
  <2> QED
    BY <2>2, <2>3, <2>4 DEF Gains
<1> QED
  BY <1>1, <1>2 DEF Publish

\* The oldest record goes to the topic, among the failed ones, or both.
LEMMA ProducerGains ==
  ASSUME KafkaTyped, NEW key \in Keys, Ack(key) \/ PublishFails(key), NEW k0
  PROVE  Gains(k0, {})
<1> DEFINE e == Head(buffer[key])
<1>1. /\ buffer[key] \in Seq(Events) /\ buffer[key] # <<>>
      /\ topic[key] \in Seq(Events)
  BY DEF Ack, PublishFails, KafkaTyped
<1>2. /\ e \in Events
      /\ Tail(buffer[key]) \in Seq(Events)
      /\ Len(Tail(buffer[key])) <= BufferMemory
      /\ Append(topic[key], e) \in Seq(Events)
  <2>1. Len(Tail(buffer[key])) = Len(buffer[key]) - 1 /\ Len(buffer[key]) \in Nat
    BY <1>1, HeadTailProperties, LenProperties
  <2> QED
    BY <1>1, <2>1, HeadTailProperties, AppendProperties, ControlPlaneAssumption, SMTT(30)
    DEF KafkaTyped
<1>3. ToSet(buffer[key]) = {e} \cup ToSet(Tail(buffer[key]))
  BY <1>1, ToSetTail
<1>4. ToSet(Append(topic[key], e)) = ToSet(topic[key]) \cup {e}
  BY <1>1, <1>2, ToSetAppend
<1> HIDE DEF e
<1>5. /\ buffer' \in [Keys -> Seq(Events)]
      /\ buffer'[key] = Tail(buffer[key])
      /\ \A k \in Keys : k # key => buffer'[k] = buffer[k]
      /\ forgotten' = forgotten
  BY <1>2 DEF Ack, PublishFails, RestOf, KafkaTyped
<1>6. /\ topic' \in [Keys -> Seq(Events)]
      /\ \A k \in Keys : k # key => topic'[k] = topic[k]
      /\ \/ topic'[key] = Append(topic[key], e) /\ failed' \in {failed, failed \cup {e}}
         \/ topic'[key] = topic[key] /\ failed' = failed \cup {e}
  BY <1>2 DEF Ack, PublishFails, KafkaTyped, e
<1>7. KafkaTyped'
  BY <1>2, <1>5, <1>6 DEF KafkaTyped
<1>8. \A k \in Keys : k # key => ToSet(Partition(k))' = ToSet(Partition(k))
  BY <1>5, <1>6, <1>7, PartitionHolds, PartitionHoldsNext
<1>9. /\ ToSet(Partition(key))' \subseteq ToSet(Partition(key))
      /\ ToSet(Partition(key)) \subseteq ToSet(Partition(key))' \cup {e}
      /\ e \in ToSet(Partition(key))
      /\ e \in ToSet(Partition(key))' \cup failed'
  BY <1>3, <1>4, <1>5, <1>6, <1>7, PartitionHolds, PartitionHoldsNext
<1>10. failed \subseteq failed' /\ failed' \subseteq failed \cup {e}
  BY <1>6
<1>11. Published' = Published
  BY <1>5, <1>8, <1>9, <1>10 DEF Published
<1> QED
  BY <1>7, <1>8, <1>9, <1>11 DEF Gains

\* A restart cuts every partition's buffer in two.
LEMMA RestartGains ==
  ASSUME KafkaTyped, Restart, NEW k0
  PROVE  Gains(k0, {})
<1> DEFINE Taken(n, k) == SubSeq(buffer[k], 1, n[k])
           Left(n, k)  == SubSeq(buffer[k], n[k] + 1, Len(buffer[k]))
<1>1. PICK n \in [Keys -> 0..BufferMemory] :
        /\ \A k \in Keys : n[k] <= Len(buffer[k])
        /\ topic' = [k \in Keys |-> topic[k] \o Taken(n, k)]
        /\ forgotten' = forgotten \cup UNION {ToSet(Left(n, k)) : k \in Keys}
  BY DEF Restart
<1>2. /\ buffer' = [k \in Keys |-> <<>>]
      /\ failed' = failed
  BY DEF Restart
<1>3. ASSUME NEW k \in Keys
      PROVE  /\ Taken(n, k) \in Seq(Events)
             /\ Left(n, k) \in Seq(Events)
             /\ ToSet(buffer[k]) = ToSet(Taken(n, k)) \cup ToSet(Left(n, k))
  <2>1. buffer[k] \in Seq(Events) /\ n[k] \in 0..Len(buffer[k])
    BY <1>1, ControlPlaneAssumption DEF KafkaTyped
  <2> QED
    BY <2>1, ToSetCut
<1> HIDE DEF Taken, Left
<1>4. /\ \A k \in Keys : topic[k] \o Taken(n, k) \in Seq(Events)
      /\ \A k \in Keys : ToSet(topic'[k]) = ToSet(topic[k]) \cup ToSet(Taken(n, k))
  BY <1>1, <1>3, ToSetConcat, ConcatProperties DEF KafkaTyped
<1>5. <<>> \in Seq(Events) /\ Len(<<>>) = 0 /\ ToSet(<<>>) = {}
  BY DEF ToSet
<1>6. KafkaTyped'
  <2>1. \A k \in Keys : ToSet(Left(n, k)) \subseteq Events
    BY <1>3, ElementOfSeq DEF ToSet
  <2>2. forgotten' \subseteq Events
    BY <1>1, <2>1 DEF KafkaTyped
  <2> QED
    BY <1>1, <1>2, <1>4, <1>5, <2>2, ControlPlaneAssumption DEF KafkaTyped
<1>7. \A k \in Keys : ToSet(Partition(k))' = ToSet(topic[k]) \cup ToSet(Taken(n, k))
  BY <1>2, <1>4, <1>5, <1>6, PartitionHoldsNext
<1>8. \A k \in Keys : ToSet(Partition(k)) =
        ToSet(topic[k]) \cup ToSet(Taken(n, k)) \cup ToSet(Left(n, k))
  BY <1>3, PartitionHolds
<1>9. Published' = Published
  BY <1>1, <1>2, <1>7, <1>8 DEF Published
<1> QED
  BY <1>6, <1>7, <1>8, <1>9 DEF Gains

-----------------------------------------------------------------------------
(* Which events may be published. *)

\* The producer's steps, and the calls' that handle no message.
LEMMA CertInvKept ==
  ASSUME CertInv, UNCHANGED <<cert, handled>>, NEW k0, Gains(k0, {})
  PROVE  CertInv'
BY DEF CertInv, CertifiedOnly, Gains, Own, Sent

\* A message is handled: its event is published if and only if it is the
\* agent's own, and then under the agent's key.
LEMMA CertInvHandled ==
  ASSUME SessionsTyped, CertInv, NEW c \in AnyCall, NEW m \in Fresh,
         UNCHANGED cert, handled' = [handled EXCEPT ![c] = Append(@, m)],
         NEW key \in Keys, NEW S \in {{}, {m.id}}, Gains(key, S),
         S = {m.id} <=> Own(c, m),
         Own(c, m) => key.name = cert[c].name
  PROVE  CertInv'
<1>1. m \in Messages /\ m.id \notin Sent
  BY DEF Fresh
<1>2. /\ ToSet(handled'[c]) = ToSet(handled[c]) \cup {m}
      /\ \A d \in AnyCall : d # c => handled'[d] = handled[d]
  BY <1>1, ToSetAppend DEF SessionsTyped
<1>3. \A d \in AnyCall : \A x \in ToSet(handled[d]) : x.id \in Sent
  BY DEF Sent
<1>4. \A d \in AnyCall : \A x \in ToSet(handled[d]) : x.id \in Published' <=> x.id \in Published
  BY <1>1, <1>3 DEF Gains
<1>5. m.id \in Published' <=> Own(c, m)
  BY <1>1 DEF CertInv, Gains
<1>6. \A d \in AnyCall : \A x : Own(d, x)' <=> Own(d, x)
  BY DEF Own
<1>7. \A d \in AnyCall : \A x \in ToSet(handled'[d]) : x.id \in Published' <=> Own(d, x)
  BY <1>2, <1>4, <1>5 DEF CertInv, CertifiedOnly
<1>8. ASSUME NEW k \in Keys, NEW e \in ToSet(Partition(k))'
      PROVE  \E d \in AnyCall : \E x \in ToSet(handled'[d]) :
               x.id = e /\ Own(d, x) /\ k.name = cert[d].name
  <2>1. CASE e \in ToSet(Partition(k))
    <3>1. PICK d \in AnyCall : \E x \in ToSet(handled[d]) :
            x.id = e /\ Own(d, x) /\ k.name = cert[d].name
      BY <2>1 DEF CertInv, CertifiedOnly
    <3>2. ToSet(handled[d]) \subseteq ToSet(handled'[d])
      BY <1>2
    <3> QED
      BY <3>1, <3>2
  <2>2. CASE e \in S /\ k = key
    BY <1>2, <2>2
  <2> QED
    BY <2>1, <2>2 DEF Gains
<1>9. CertifiedOnly'
  <2>1. \A d \in AnyCall : \A x \in ToSet(handled[d])' : (x.id \in Published <=> Own(d, x))'
    BY <1>6, <1>7 DEF ToSet
  <2>2. \A k \in Keys : \A e \in ToSet(Partition(k))' :
          \E d \in AnyCall : \E x \in ToSet(handled[d])' :
            x.id = e /\ Own(d, x)' /\ k.name = cert'[d].name
    BY <1>6, <1>8 DEF ToSet
  <2> QED
    BY <2>1, <2>2 DEF CertifiedOnly
<1>10. (Published \subseteq Sent)'
  <2>1. Sent' = Sent \cup {m.id}
    <3>1. Sent' = UNION {{x.id : x \in ToSet(handled'[d])} : d \in AnyCall}
      BY DEF Sent, ToSet
    <3> QED
      BY <1>2, <3>1 DEF Sent
  <2> QED
    BY <2>1 DEF CertInv, Gains
<1> QED
  BY <1>9, <1>10 DEF CertInv

\* What every handler of a message does, whichever method it belongs to.
Handles(c, m) ==
  /\ call[c] = "open"
  /\ handled' = [handled EXCEPT ![c] = Append(@, m)]
  /\ UNCHANGED <<cert, certCN>>
  /\ \/ ~Matches(c, m) /\ UNCHANGED kafka
     \/ Matches(c, m) /\ (Publish(certCN[c], m.id) \/ SendThrows(m.id))

LEMMA HandledHolds ==
  ASSUME IInv, NEW c \in AnyCall, NEW m \in Fresh, Handles(c, m)
  PROVE  /\ KafkaTyped'
         /\ CertInv'
         /\ handled' \in [AnyCall -> Seq(Messages)]
<1>1. SessionsTyped /\ KafkaTyped /\ CertInv
  BY TypeSplit DEF IInv
<1>2. m \in Messages /\ m.id \in Events /\ m.agent \in Spellings
  BY DEF Fresh, Messages
<1>3. cert[c] # NoName /\ certCN[c] = ToLowerCase(cert[c]) /\ cert[c] \in Spellings
  BY <1>1 DEF Handles, IInv, NameInv, SessionsTyped
<1>4. certCN[c] \in Keys /\ certCN[c].name = cert[c].name
  BY <1>3, LowerCase
<1>5. Matches(c, m) <=> Own(c, m)
  BY <1>2, <1>3, LowerCase DEF Matches, Own
<1>6. PICK S \in {{}, {m.id}} : Gains(certCN[c], S) /\ (S = {m.id} <=> Own(c, m))
  <2>1. CASE ~Matches(c, m) /\ UNCHANGED kafka
    <3>1. Gains(certCN[c], {})
      BY <1>1, <2>1, NothingGained
    <3> QED
      BY <1>5, <2>1, <3>1
  <2>2. CASE Matches(c, m) /\ (Publish(certCN[c], m.id) \/ SendThrows(m.id))
    <3>1. Gains(certCN[c], {m.id})
      BY <1>1, <1>2, <1>4, <2>2, PublishGains
    <3> QED
      BY <1>5, <2>2, <3>1
  <2> QED
    BY <2>1, <2>2 DEF Handles
<1>7. UNCHANGED cert /\ handled' = [handled EXCEPT ![c] = Append(@, m)]
  BY DEF Handles
<1>8. CertInv'
  BY <1>1, <1>4, <1>6, <1>7, CertInvHandled
<1>9. handled' \in [AnyCall -> Seq(Messages)]
  BY <1>1, <1>2, <1>7, AppendProperties DEF SessionsTyped
<1> QED
  BY <1>6, <1>8, <1>9 DEF Gains

-----------------------------------------------------------------------------
(* Every step keeps the invariant. *)

LEMMA ServiceHolds ==
  ASSUME IInv, NEW c \in AnyCall, Service(c)
  PROVE  IInv'
<1>1. SessionsTyped /\ KafkaTyped /\ NameInv /\ CertInv
  BY TypeSplit DEF IInv
<1>2. CASE Unauthenticated(c) \/ Intercept(c) \/ (c \in Calls /\ (OnCompleted(c) \/ OnError(c)))
  <2>1. UNCHANGED <<cert, handled, counters, kafka>>
    BY <1>2 DEF Unauthenticated, Intercept, OnCompleted, OnError
  <2>2. Gains(NoName, {})
    BY <1>1, <2>1, NothingGained
  <2>3. KafkaTyped' /\ CertInv'
    BY <1>1, <2>1, <2>2, CertInvKept DEF Gains
  <2>4. CASE Intercept(c)
    <3>1. cert[c] \in Spellings /\ CN(c) \in Keys
      BY <1>1, <2>4, LowerCase DEF Intercept, SessionsTyped, CN
    <3>2. SessionsTyped'
      BY <1>1, <2>1, <2>4, <3>1 DEF Intercept, SessionsTyped, Goto, CallStates, counters
    <3>3. NameInv'
      BY <1>1, <2>1, <2>4 DEF Intercept, SessionsTyped, NameInv, Goto, CN
    <3> QED
      BY <2>3, <3>2, <3>3, TypeSplit DEF IInv, TypeOK, SessionsTyped, KafkaTyped
  <2>5. CASE ~Intercept(c)
    <3>1. PICK s \in Ended : Goto(c, s) /\ UNCHANGED certCN
      BY <1>2, <2>5 DEF Unauthenticated, OnCompleted, OnError, Ended
    <3>2. SessionsTyped'
      BY <1>1, <2>1, <3>1 DEF SessionsTyped, Goto, CallStates, counters
    <3>3. NameInv'
      BY <1>1, <2>1, <3>1 DEF SessionsTyped, NameInv, Goto, Ended
    <3> QED
      BY <2>3, <3>2, <3>3 DEF IInv, TypeOK, SessionsTyped, KafkaTyped
  <2> QED
    BY <2>4, <2>5
<1>3. ASSUME NEW m \in Fresh, c \in Calls, OnNext(c, m) \/ OnNextThrows(c, m)
      PROVE  IInv'
  <2>1. Handles(c, m)
    BY <1>3 DEF OnNext, OnNextRejects, OnNextAccepts, OnNextThrows, Handles
  <2>2. KafkaTyped' /\ CertInv' /\ handled' \in [AnyCall -> Seq(Messages)]
    BY <2>1, HandledHolds
  <2>3. /\ call' \in {call, [call EXCEPT ![c] = "broken"]}
        /\ accepted' \in {accepted, Count(accepted, c)}
        /\ rejected' \in {rejected, Count(rejected, c)}
        /\ UNCHANGED <<cert, certCN>>
    BY <1>3 DEF OnNext, OnNextRejects, OnNextAccepts, OnNextThrows, Goto, counters
  <2>4. SessionsTyped'
    <3>1. Count(accepted, c) \in [Calls -> Nat] /\ Count(rejected, c) \in [Calls -> Nat]
      BY <1>1, <1>3 DEF SessionsTyped, Count
    <3>2. [call EXCEPT ![c] = "broken"] \in [AnyCall -> CallStates]
      BY <1>1 DEF SessionsTyped, CallStates, Ended
    <3> QED
      BY <1>1, <2>2, <2>3, <3>1, <3>2 DEF SessionsTyped
  <2>5. NameInv'
    BY <1>1, <2>3 DEF SessionsTyped, NameInv
  <2> QED
    BY <2>2, <2>4, <2>5 DEF IInv, TypeOK, SessionsTyped, KafkaTyped
<1>4. ASSUME NEW m \in Fresh, SendEventRejects(c, m) \/ SendEventPublishes(c, m)
      PROVE  IInv'
  <2>1. Handles(c, m)
    BY <1>4 DEF SendEventRejects, SendEventPublishes, Handles
  <2>2. KafkaTyped' /\ CertInv' /\ handled' \in [AnyCall -> Seq(Messages)]
    BY <2>1, HandledHolds
  <2>3. PICK s \in Ended : Goto(c, s)
    BY <1>4 DEF SendEventRejects, SendEventPublishes, Ended
  <2>4. UNCHANGED <<cert, certCN, counters>>
    BY <1>4 DEF SendEventRejects, SendEventPublishes
  <2>5. SessionsTyped'
    BY <1>1, <2>2, <2>3, <2>4 DEF SessionsTyped, Goto, CallStates, counters
  <2>6. NameInv'
    BY <1>1, <2>3, <2>4 DEF SessionsTyped, NameInv, Goto, Ended
  <2> QED
    BY <2>2, <2>5, <2>6 DEF IInv, TypeOK, SessionsTyped, KafkaTyped
<1> QED
  BY <1>2, <1>3, <1>4 DEF Service

LEMMA StepHolds == IInv /\ [Next]_vars => IInv'
<1> SUFFICES ASSUME IInv, [Next]_vars PROVE IInv'
  OBVIOUS
<1>1. SessionsTyped /\ KafkaTyped /\ NameInv /\ CertInv
  BY TypeSplit DEF IInv
<1>2. ASSUME NEW c \in AnyCall, Service(c) PROVE IInv'
  BY <1>2, ServiceHolds
<1>3. ASSUME NEW key \in Keys, Ack(key) \/ PublishFails(key) PROVE IInv'
  <2>1. UNCHANGED sessions
    BY <1>3 DEF Ack, PublishFails
  <2>2. Gains(key, {})
    BY <1>1, <1>3, ProducerGains
  <2>3. CertInv'
    BY <1>1, <2>1, <2>2, CertInvKept DEF sessions
  <2> QED
    BY <1>1, <2>1, <2>2, <2>3
    DEF sessions, counters, Gains, IInv, NameInv, TypeOK, SessionsTyped, KafkaTyped
<1>4. CASE Restart
  <2>1. Gains(NoName, {})
    BY <1>1, <1>4, RestartGains
  <2>2. UNCHANGED <<cert, certCN, counters, handled>>
    BY <1>4 DEF Restart
  <2>3. CertInv'
    BY <1>1, <2>1, <2>2, CertInvKept
  <2>4. SessionsTyped'
    BY <1>1, <1>4, <2>2 DEF Restart, SessionsTyped, CallStates, Ended, counters
  <2>5. NameInv'
    BY <1>1, <1>4, <2>2 DEF Restart, SessionsTyped, NameInv
  <2> QED
    BY <2>1, <2>3, <2>4, <2>5 DEF Gains, IInv, TypeOK, SessionsTyped, KafkaTyped
<1>5. CASE UNCHANGED vars
  <2>1. UNCHANGED sessions /\ UNCHANGED kafka
    BY <1>5 DEF vars
  <2>2. Gains(NoName, {})
    BY <1>1, <2>1, NothingGained
  <2>3. CertInv'
    BY <1>1, <2>1, <2>2, CertInvKept DEF sessions
  <2> QED
    BY <1>1, <2>1, <2>2, <2>3
    DEF sessions, counters, Gains, IInv, NameInv, TypeOK, SessionsTyped, KafkaTyped
<1> QED
  BY <1>2, <1>3, <1>4, <1>5 DEF Next, Producer

LEMMA Invariance == Spec => []IInv
BY InitHolds, StepHolds, PTL DEF Spec

\* Every variable of the Control Plane keeps its type, and the producer never
\* holds more of one agent's records than it has memory for.
THEOREM TypeCorrect == Spec => []TypeOK
<1>1. IInv => TypeOK
  BY DEF IInv
<1> QED
  BY <1>1, Invariance, PTL

\* For any number of agents and calls at the same time, and whatever fails: an
\* event is published if and only if the certificate of its call names the agent
\* it claims, and only in that agent's partition.
THEOREM EventsAreCertified == Spec => []CertifiedOnly
<1>1. IInv => CertifiedOnly
  BY DEF IInv, CertInv
<1> QED
  BY <1>1, Invariance, PTL

-----------------------------------------------------------------------------
(* The order within a call. *)

\* The events of s that h has messages of are in h's order.
Follows(s, h) ==
  \A i, j \in DOMAIN s, p, q \in DOMAIN h :
    h[p].id = s[i] /\ h[q].id = s[j] /\ p < q => i < j

Ordered(s) == IsInjective(s) /\ \A c \in AnyCall : Follows(s, handled[c])

LEMMA OrderSplit == InSessionOrder <=> \A key \in Keys : Ordered(Partition(key))
BY DEF InSessionOrder, Ordered, Follows

\* InSessionOrder with the variables it depends on as arguments.
OrderOf(t, b, h) ==
  \A key \in Keys : /\ IsInjective(t[key] \o b[key])
                    /\ \A c \in AnyCall : Follows(t[key] \o b[key], h[c])

LEMMA OrderIs == InSessionOrder <=> OrderOf(topic, buffer, handled)
BY DEF InSessionOrder, OrderOf, Follows, Partition

LEMMA OrderIsNext == InSessionOrder' <=> OrderOf(topic', buffer', handled')
<1>1. (InSessionOrder <=> OrderOf(topic, buffer, handled))'
  BY OrderIs, PTL
<1> QED
  BY <1>1

\* Dropping elements keeps the order of the rest.
LEMMA Thinned ==
  ASSUME NEW s \in Seq(Events), NEW t \in Seq(Events),
         NEW f \in [1..Len(t) -> 1..Len(s)],
         \A i \in 1..Len(t) : t[i] = s[f[i]],
         \A i, j \in 1..Len(t) : i < j => f[i] < f[j],
         Ordered(s)
  PROVE  Ordered(t)
<1>1. /\ DOMAIN s = 1..Len(s) /\ DOMAIN t = 1..Len(t)
      /\ 1..Len(s) \subseteq Nat /\ 1..Len(t) \subseteq Nat
  BY LenProperties
<1>2. \A i, j \in 1..Len(t) : f[i] = f[j] => i = j
  BY <1>1
<1>3. \A i, j \in 1..Len(t) : f[i] < f[j] => i < j
  BY <1>1
<1>4. IsInjective(t)
  BY <1>1, <1>2 DEF IsInjective, Ordered
<1>5. ASSUME NEW c \in AnyCall PROVE Follows(t, handled[c])
  <2> SUFFICES ASSUME NEW i \in 1..Len(t), NEW j \in 1..Len(t),
                      NEW p \in DOMAIN handled[c], NEW q \in DOMAIN handled[c],
                      handled[c][p].id = t[i], handled[c][q].id = t[j], p < q
               PROVE  i < j
    BY <1>1 DEF Follows
  <2>1. f[i] < f[j]
    BY <1>1 DEF Ordered, Follows
  <2> QED
    BY <1>3, <2>1
<1> QED
  BY <1>4, <1>5 DEF Ordered

\* A new event may go to the end, if it is the last of its call.
LEMMA FollowsAppend ==
  ASSUME NEW s \in Seq(Events), NEW h \in Seq(Messages), NEW m \in Messages,
         m.id \notin ToSet(s), \A p \in DOMAIN h : h[p].id # m.id, Follows(s, h)
  PROVE  /\ Follows(Append(s, m.id), h)
         /\ Follows(s, Append(h, m))
         /\ Follows(Append(s, m.id), Append(h, m))
<1> DEFINE s2 == Append(s, m.id)
           h2 == Append(h, m)
<1>1. m.id \in Events
  BY DEF Messages
<1>2. /\ DOMAIN s = 1..Len(s) /\ DOMAIN s2 = 1..Len(s) + 1
      /\ Len(s) \in Nat
      /\ \A i \in 1..Len(s) : s2[i] = s[i] /\ s[i] # m.id
      /\ s2[Len(s) + 1] = m.id
  BY <1>1, AppendProperties, LenProperties DEF ToSet
<1>3. /\ DOMAIN h = 1..Len(h) /\ DOMAIN h2 = 1..Len(h) + 1
      /\ Len(h) \in Nat
      /\ \A p \in 1..Len(h) : h2[p] = h[p] /\ h[p].id # m.id
      /\ h2[Len(h) + 1] = m
  BY AppendProperties, LenProperties
<1> HIDE DEF s2, h2
<1>4. Follows(s2, h)
  <2>1. \A i \in DOMAIN s2, p \in DOMAIN h : h[p].id = s2[i] => i \in DOMAIN s /\ h[p].id = s[i]
    BY <1>2, <1>3
  <2> QED
    BY <2>1 DEF Follows
<1>5. Follows(s, h2)
  <2>1. \A i \in DOMAIN s, p \in DOMAIN h2 : h2[p].id = s[i] => p \in DOMAIN h /\ h[p].id = s[i]
    BY <1>2, <1>3
  <2> QED
    BY <2>1 DEF Follows
<1>6. Follows(s2, h2)
  <2> SUFFICES ASSUME NEW i \in DOMAIN s2, NEW j \in DOMAIN s2,
                      NEW p \in DOMAIN h2, NEW q \in DOMAIN h2,
                      h2[p].id = s2[i], h2[q].id = s2[j], p < q
               PROVE  i < j
    BY DEF Follows
  <2>1. p \in DOMAIN h /\ i \in DOMAIN s /\ h[p].id = s[i]
    BY <1>2, <1>3
  <2>2. CASE j = Len(s) + 1
    BY <1>2, <2>1, <2>2
  <2>3. CASE j \in DOMAIN s
    <3>1. q \in DOMAIN h /\ h[q].id = s[j]
      BY <1>2, <1>3, <2>3
    <3> QED
      BY <2>1, <2>3, <3>1 DEF Follows
  <2> QED
    BY <1>2, <2>2, <2>3
<1> QED
  BY <1>4, <1>5, <1>6 DEF s2, h2

LEMMA InjectiveAppend ==
  ASSUME NEW s \in Seq(Events), NEW e \in Events, IsInjective(s), e \notin ToSet(s)
  PROVE  IsInjective(Append(s, e))
<1>1. /\ DOMAIN s = 1..Len(s) /\ DOMAIN Append(s, e) = 1..Len(s) + 1
      /\ \A i \in 1..Len(s) : Append(s, e)[i] = s[i] /\ s[i] # e
      /\ Append(s, e)[Len(s) + 1] = e
      /\ Len(s) \in Nat
  BY AppendProperties, LenProperties DEF ToSet
<1> QED
  BY <1>1 DEF IsInjective

LEMMA ConcatIs ==
  ASSUME NEW s \in Seq(Events), NEW t \in Seq(Events)
  PROVE  /\ s \o t \in Seq(Events)
         /\ Len(s \o t) = Len(s) + Len(t)
         /\ \A i \in 1..Len(s) + Len(t) :
              (s \o t)[i] = IF i <= Len(s) THEN s[i] ELSE t[i - Len(s)]
BY ConcatProperties

\* A prefix, and a sequence without one of its elements, are thinned.
LEMMA PrefixOrdered ==
  ASSUME NEW s \in Seq(Events), NEW t \in Seq(Events), NEW n \in 0..Len(t),
         Ordered(s \o t)
  PROVE  Ordered(s \o SubSeq(t, 1, n))
<1> DEFINE st == s \o t
           u  == SubSeq(t, 1, n)
           su == s \o u
<1>1. Len(s) \in Nat /\ Len(t) \in Nat
  BY LenProperties
<1>2. u \in Seq(Events) /\ Len(u) = n /\ \A i \in 1..n : u[i] = t[i]
  BY <1>1, SMTT(30)
<1>3. /\ st \in Seq(Events) /\ Len(st) = Len(s) + Len(t)
      /\ \A i \in 1..Len(st) : st[i] = IF i <= Len(s) THEN s[i] ELSE t[i - Len(s)]
  BY ConcatProperties
<1> HIDE DEF u
<1>4. /\ su \in Seq(Events) /\ Len(su) = Len(s) + n
      /\ \A i \in 1..Len(su) : su[i] = IF i <= Len(s) THEN s[i] ELSE u[i - Len(s)]
  <2>1. /\ su \in Seq(Events) /\ Len(su) = Len(s) + Len(u)
        /\ \A i \in 1..Len(s) + Len(u) :
             su[i] = IF i <= Len(s) THEN s[i] ELSE u[i - Len(s)]
    BY <1>2, ConcatIs
  <2> QED
    BY <1>2, <2>1
<1> HIDE DEF st, su
<1>5. ASSUME NEW i \in 1..Len(su) PROVE i \in 1..Len(st) /\ su[i] = st[i]
  <2>1. i \in 1..Len(st)
    BY <1>1, <1>3, <1>4
  <2>2. CASE i <= Len(s)
    BY <1>3, <1>4, <2>1, <2>2
  <2>3. CASE ~(i <= Len(s))
    <3>1. i - Len(s) \in 1..n
      BY <1>1, <1>4, <2>3
    <3> QED
      BY <1>2, <1>3, <1>4, <2>1, <2>3, <3>1
  <2> QED
    BY <2>1, <2>2, <2>3
<1> DEFINE f == [i \in 1..Len(su) |-> i]
<1>6. /\ f \in [1..Len(su) -> 1..Len(st)]
      /\ \A i \in 1..Len(su) : su[i] = st[f[i]]
      /\ \A i, j \in 1..Len(su) : i < j => f[i] < f[j]
  BY <1>5
<1>7. Ordered(st) /\ st \in Seq(Events) /\ su \in Seq(Events)
  BY <1>3, <1>4 DEF st
<1> HIDE DEF f
<1>8. Ordered(su)
  BY <1>6, <1>7, Thinned
<1> QED
  BY <1>8 DEF su, u

LEMMA WithoutOrdered ==
  ASSUME NEW s \in Seq(Events), NEW t \in Seq(Events), t # <<>>, Ordered(s \o t)
  PROVE  Ordered(s \o Tail(t))
<1> DEFINE st == s \o t
           u  == Tail(t)
           su == s \o u
<1>1. Len(s) \in Nat /\ Len(t) \in Nat
  BY LenProperties
<1>2. u \in Seq(Events) /\ Len(u) = Len(t) - 1 /\ \A i \in 1..Len(u) : u[i] = t[i + 1]
  BY <1>1, HeadTailProperties
<1>3. /\ st \in Seq(Events) /\ Len(st) = Len(s) + Len(t)
      /\ \A i \in 1..Len(st) : st[i] = IF i <= Len(s) THEN s[i] ELSE t[i - Len(s)]
  BY ConcatProperties
<1> HIDE DEF u
<1>4. /\ su \in Seq(Events) /\ Len(su) = Len(s) + Len(u)
      /\ \A i \in 1..Len(su) : su[i] = IF i <= Len(s) THEN s[i] ELSE u[i - Len(s)]
  <2>1. /\ su \in Seq(Events) /\ Len(su) = Len(s) + Len(u)
        /\ \A i \in 1..Len(s) + Len(u) :
             su[i] = IF i <= Len(s) THEN s[i] ELSE u[i - Len(s)]
    BY <1>2, ConcatIs
  <2> QED
    BY <2>1
<1> HIDE DEF st, su
<1> DEFINE f == [i \in 1..Len(su) |-> IF i <= Len(s) THEN i ELSE i + 1]
<1>5. ASSUME NEW i \in 1..Len(su) PROVE f[i] \in 1..Len(st) /\ su[i] = st[f[i]]
  <2>1. CASE i <= Len(s)
    <3>1. f[i] = i /\ i \in 1..Len(st)
      BY <1>1, <1>2, <1>3, <1>4, <2>1
    <3> QED
      BY <1>3, <1>4, <2>1, <3>1
  <2>2. CASE ~(i <= Len(s))
    <3>1. /\ f[i] = i + 1 /\ i + 1 \in 1..Len(st) /\ ~(i + 1 <= Len(s))
          /\ i - Len(s) \in 1..Len(u)
          /\ (i - Len(s)) + 1 = (i + 1) - Len(s)
      BY <1>1, <1>2, <1>3, <1>4, <2>2
    <3>2. su[i] = u[i - Len(s)] /\ st[i + 1] = t[(i + 1) - Len(s)]
      BY <1>3, <1>4, <2>2, <3>1
    <3> QED
      BY <1>2, <3>1, <3>2
  <2> QED
    BY <2>1, <2>2
<1>6. /\ f \in [1..Len(su) -> 1..Len(st)]
      /\ \A i \in 1..Len(su) : su[i] = st[f[i]]
      /\ \A i, j \in 1..Len(su) : i < j => f[i] < f[j]
  <2>1. f \in [1..Len(su) -> 1..Len(st)]
    BY <1>5
  <2>2. \A i, j \in 1..Len(su) : i < j => f[i] < f[j]
    BY <1>1, <1>4
  <2> QED
    BY <1>5, <2>1, <2>2
<1>7. Ordered(st) /\ st \in Seq(Events) /\ su \in Seq(Events)
  BY <1>3, <1>4 DEF st
<1> HIDE DEF f
<1>8. Ordered(su)
  BY <1>6, <1>7, Thinned
<1> QED
  BY <1>8 DEF su, u

\* The oldest record of the buffer goes to the end of the topic.
LEMMA Moved ==
  ASSUME NEW s \in Seq(Events), NEW t \in Seq(Events), t # <<>>
  PROVE  Append(s, Head(t)) \o Tail(t) = s \o t
<1>1. Head(t) \in Events /\ Tail(t) \in Seq(Events) /\ t = <<Head(t)>> \o Tail(t)
  BY HeadTailProperties, SMTT(30)
<1>2. Append(s, Head(t)) = s \o <<Head(t)>> /\ <<Head(t)>> \in Seq(Events)
  BY <1>1, AppendIsConcat
<1>3. PICK e \in Seq(Events) : e = <<Head(t)>>
  BY <1>2
<1>4. PICK u \in Seq(Events) : u = Tail(t)
  BY <1>1
<1>5. (s \o e) \o u = s \o (e \o u)
  BY ConcatAssociative
<1> QED
  BY <1>1, <1>2, <1>3, <1>4, <1>5

LEMMA AppendLast ==
  ASSUME NEW s \in Seq(Events), NEW t \in Seq(Events), NEW e \in Events
  PROVE  s \o Append(t, e) = Append(s \o t, e)
<1>1. Append(t, e) = t \o <<e>> /\ <<e>> \in Seq(Events)
  BY AppendIsConcat
<1>2. PICK x \in Seq(Events) : x = <<e>>
  BY <1>1
<1>3. s \o t \in Seq(Events) /\ Append(s \o t, e) = (s \o t) \o <<e>>
  BY ConcatProperties, AppendIsConcat
<1>4. (s \o t) \o x = s \o (t \o x)
  BY ConcatAssociative
<1> QED
  BY <1>1, <1>2, <1>3, <1>4

\* The events of a call, and of a partition, have been sent.
LEMMA NewIsNew ==
  ASSUME IInv, NEW m \in Fresh
  PROVE  /\ m \in Messages /\ m.id \in Events
         /\ \A key \in Keys : m.id \notin ToSet(Partition(key))
         /\ \A c \in AnyCall : \A p \in DOMAIN handled[c] : handled[c][p].id # m.id
<1>1. m \in Messages /\ m.id \notin Sent
  BY DEF Fresh
<1>2. \A key \in Keys : ToSet(Partition(key)) \subseteq Sent
  BY DEF IInv, CertInv, Published
<1>3. \A c \in AnyCall : \A p \in DOMAIN handled[c] : handled[c][p].id \in Sent
  BY DEF Sent, ToSet
<1> QED
  BY <1>1, <1>2, <1>3 DEF Messages

LEMMA HandledOrdered ==
  ASSUME IInv, InSessionOrder, NEW c \in AnyCall, NEW m \in Fresh, Handles(c, m)
  PROVE  InSessionOrder'
<1>1. SessionsTyped /\ KafkaTyped
  BY TypeSplit DEF IInv
<1>2. /\ m \in Messages /\ m.id \in Events
      /\ \A key \in Keys : m.id \notin ToSet(Partition(key))
      /\ \A d \in AnyCall : \A p \in DOMAIN handled[d] : handled[d][p].id # m.id
  BY NewIsNew
<1>3. handled' = [handled EXCEPT ![c] = Append(handled[c], m)]
  BY DEF Handles
<1>4. ASSUME NEW s \in Seq(Events), m.id \notin ToSet(s), Ordered(s)
      PROVE  /\ \A d \in AnyCall : Follows(s, handled'[d])
             /\ \A d \in AnyCall : Follows(Append(s, m.id), handled'[d])
             /\ IsInjective(s) /\ IsInjective(Append(s, m.id))
  <2>1. IsInjective(s) /\ IsInjective(Append(s, m.id))
    BY <1>2, <1>4, InjectiveAppend DEF Ordered
  <2>2. ASSUME NEW d \in AnyCall
        PROVE  Follows(s, handled'[d]) /\ Follows(Append(s, m.id), handled'[d])
    <3>1. handled[d] \in Seq(Messages) /\ Follows(s, handled[d])
      BY <1>1, <1>4 DEF SessionsTyped, Ordered
    <3>2. /\ Follows(Append(s, m.id), handled[d])
          /\ Follows(s, Append(handled[d], m))
          /\ Follows(Append(s, m.id), Append(handled[d], m))
      BY <1>2, <1>4, <3>1, FollowsAppend
    <3>3. handled'[d] = IF d = c THEN Append(handled[d], m) ELSE handled[d]
      BY <1>1, <1>3 DEF SessionsTyped
    <3> QED
      BY <3>1, <3>2, <3>3
  <2> QED
    BY <2>1, <2>2
<1>5. ASSUME NEW key \in Keys
      PROVE  topic'[key] \o buffer'[key] \in
               {topic[key] \o buffer[key], Append(topic[key] \o buffer[key], m.id)}
  <2>1. topic[key] \in Seq(Events) /\ buffer[key] \in Seq(Events)
    BY <1>1 DEF KafkaTyped
  <2>2. CASE UNCHANGED <<topic, buffer>>
    BY <2>2
  <2>3. CASE Matches(c, m) /\ Enqueue(certCN[c], m.id)
    <3>1. topic'[key] = topic[key] /\ buffer'[key] \in {buffer[key], Append(buffer[key], m.id)}
      BY <1>1, <2>3 DEF Enqueue, InCallOrder, KafkaTyped
    <3>2. topic[key] \o Append(buffer[key], m.id) = Append(topic[key] \o buffer[key], m.id)
      BY <1>2, <2>1, AppendLast
    <3> QED
      BY <3>1, <3>2
  <2> QED
    BY <2>2, <2>3 DEF Handles, Publish, NotSerialised, SendThrows, kafka
<1>6. ASSUME NEW key \in Keys
      PROVE  /\ IsInjective(topic'[key] \o buffer'[key])
             /\ \A d \in AnyCall : Follows(topic'[key] \o buffer'[key], handled'[d])
  <2>1. Partition(key) \in Seq(Events) /\ Ordered(Partition(key))
    BY <1>1, OrderSplit, ConcatProperties DEF Partition, KafkaTyped
  <2> QED
    BY <1>2, <1>4, <1>5, <2>1 DEF Partition
<1> QED
  BY <1>6, OrderIsNext DEF OrderOf

LEMMA ProducerOrdered ==
  ASSUME IInv, InSessionOrder, UNCHANGED handled,
         \/ \E key \in Keys : Ack(key) \/ PublishFails(key)
         \/ Restart
  PROVE  InSessionOrder'
<1>1. KafkaTyped
  BY TypeSplit DEF IInv
<1>2. \A k \in Keys : /\ topic[k] \in Seq(Events) /\ buffer[k] \in Seq(Events)
                      /\ Ordered(topic[k] \o buffer[k])
  BY <1>1, OrderSplit DEF Partition, KafkaTyped
<1>3. ASSUME NEW key \in Keys, Ack(key) \/ PublishFails(key), NEW k \in Keys
      PROVE  Ordered(topic'[k] \o buffer'[k])
  <2>1. CASE k # key
    <3>1. topic'[k] = topic[k] /\ buffer'[k] = buffer[k]
      BY <1>1, <1>3, <2>1 DEF Ack, PublishFails, KafkaTyped
    <3> QED
      BY <1>2, <3>1
  <2>2. CASE k = key
    <3>1. /\ buffer[k] # <<>>
          /\ buffer'[k] = Tail(buffer[k])
          /\ topic'[k] \in {topic[k], Append(topic[k], Head(buffer[k]))}
      BY <1>1, <1>3, <2>2 DEF Ack, PublishFails, RestOf, KafkaTyped
    <3>2. Ordered(topic[k] \o Tail(buffer[k]))
      BY <1>2, <3>1, WithoutOrdered
    <3>3. Append(topic[k], Head(buffer[k])) \o Tail(buffer[k]) = topic[k] \o buffer[k]
      BY <1>2, <3>1, Moved
    <3>4. CASE topic'[k] = topic[k]
      BY <3>1, <3>2, <3>4
    <3>5. CASE topic'[k] = Append(topic[k], Head(buffer[k]))
      <4>1. topic'[k] \o buffer'[k] = topic[k] \o buffer[k]
        BY <3>1, <3>3, <3>5
      <4> QED
        BY <1>2, <4>1
    <3> QED
      BY <3>1, <3>4, <3>5
  <2> QED
    BY <2>1, <2>2
<1>4. ASSUME Restart, NEW k \in Keys
      PROVE  Ordered(topic'[k] \o buffer'[k])
  <2>1. PICK n \in [Keys -> 0..BufferMemory] :
          /\ \A key \in Keys : n[key] <= Len(buffer[key])
          /\ topic' = [key \in Keys |-> topic[key] \o SubSeq(buffer[key], 1, n[key])]
    BY <1>4 DEF Restart
  <2>2. buffer'[k] = <<>>
    BY <1>4 DEF Restart
  <2>3. n[k] \in 0..Len(buffer[k]) /\ topic'[k] = topic[k] \o SubSeq(buffer[k], 1, n[k])
    BY <2>1, ControlPlaneAssumption
  <2>4. Ordered(topic[k] \o SubSeq(buffer[k], 1, n[k]))
    BY <1>2, <2>3, PrefixOrdered
  <2>5. SubSeq(buffer[k], 1, n[k]) \in Seq(Events)
    BY <1>2, <2>3, ToSetCut
  <2>6. topic'[k] \in Seq(Events)
    BY <1>2, <2>3, <2>5, ConcatProperties
  <2>7. topic'[k] \o <<>> = topic'[k]
    BY <2>6, ConcatEmptySeq
  <2> QED
    BY <2>2, <2>3, <2>4, <2>7
<1>5. \A k \in Keys : Ordered(topic'[k] \o buffer'[k])
  BY <1>3, <1>4
<1> QED
  BY <1>5, OrderIsNext DEF OrderOf, Ordered

LEMMA StepOrdered == IInv /\ InSessionOrder /\ [Next]_vars => InSessionOrder'
<1> SUFFICES ASSUME IInv, InSessionOrder, [Next]_vars PROVE InSessionOrder'
  OBVIOUS
<1>1. ASSUME UNCHANGED <<handled, kafka>> PROVE InSessionOrder'
  BY <1>1, OrderIs, OrderIsNext DEF kafka
<1>2. ASSUME NEW c \in AnyCall, Service(c) PROVE InSessionOrder'
  <2>1. CASE Unauthenticated(c) \/ Intercept(c) \/ OnCompleted(c) \/ OnError(c)
    BY <1>1, <2>1 DEF Unauthenticated, Intercept, OnCompleted, OnError
  <2>2. ASSUME NEW m \in Fresh,
               \/ OnNext(c, m) \/ OnNextThrows(c, m)
               \/ SendEventRejects(c, m) \/ SendEventPublishes(c, m)
        PROVE  InSessionOrder'
    <3>1. Handles(c, m)
      BY <2>2 DEF OnNext, OnNextRejects, OnNextAccepts, OnNextThrows,
                  SendEventRejects, SendEventPublishes, Handles
    <3> QED
      BY <3>1, HandledOrdered
  <2> QED
    BY <1>2, <2>1, <2>2 DEF Service
<1>3. CASE Producer
  <2>1. UNCHANGED handled
    BY <1>3 DEF Producer, Ack, PublishFails, sessions
  <2> QED
    BY <1>3, <2>1, ProducerOrdered DEF Producer
<1>4. CASE Restart
  <2>1. UNCHANGED handled
    BY <1>4 DEF Restart
  <2> QED
    BY <1>4, <2>1, ProducerOrdered
<1>5. CASE UNCHANGED vars
  BY <1>1, <1>5 DEF vars, sessions
<1> QED
  BY <1>2, <1>3, <1>4, <1>5 DEF Next

LEMMA InitOrdered == Init => InSessionOrder
<1> SUFFICES ASSUME Init PROVE InSessionOrder
  OBVIOUS
<1>1. \A key \in Keys : DOMAIN Partition(key) = {}
  BY DEF Init, Partition
<1> QED
  BY <1>1 DEF InSessionOrder, IsInjective

\* For any number of calls and any failures of the producer: what one call
\* published is in its partition in the order it was sent, and at most once.
THEOREM CallsStayInOrder == Spec => []InSessionOrder
BY InitOrdered, StepOrdered, Invariance, PTL DEF Spec

-----------------------------------------------------------------------------
(* The counters. *)

\* The places in h of what the holder of the certificate s sent in its own
\* name, and of the rest.
OwnIn(h, s)     == {i \in DOMAIN h : s # NoName /\ h[i].agent.name = s.name}
ForeignIn(h, s) == {i \in DOMAIN h : ~(s # NoName /\ h[i].agent.name = s.name)}

\* One more message of the holder's own, and one more that is not.
LEMMA OneMoreOwn ==
  ASSUME NEW h \in Seq(Messages), NEW m \in Messages, NEW s,
         s # NoName /\ m.agent.name = s.name
  PROVE  /\ Cardinality(OwnIn(Append(h, m), s)) = Cardinality(OwnIn(h, s)) + 1
         /\ ForeignIn(Append(h, m), s) = ForeignIn(h, s)
         /\ Cardinality(OwnIn(h, s)) \in Nat
<1>1. /\ DOMAIN Append(h, m) = 1..Len(h) + 1 /\ DOMAIN h = 1..Len(h) /\ Len(h) \in Nat
      /\ \A i \in 1..Len(h) : Append(h, m)[i] = h[i]
      /\ Append(h, m)[Len(h) + 1] = m
  BY AppendProperties, LenProperties
<1>2. /\ 1..Len(h) + 1 = 1..Len(h) \cup {Len(h) + 1}
      /\ Len(h) + 1 \notin 1..Len(h)
  BY <1>1
<1>3. /\ OwnIn(Append(h, m), s) = OwnIn(h, s) \cup {Len(h) + 1}
      /\ ForeignIn(Append(h, m), s) = ForeignIn(h, s)
      /\ Len(h) + 1 \notin OwnIn(h, s)
  BY <1>1, <1>2 DEF OwnIn, ForeignIn
<1>4. IsFiniteSet(OwnIn(h, s))
  <2>1. IsFiniteSet(1..Len(h))
    BY <1>1, FS_Interval
  <2>2. OwnIn(h, s) \in SUBSET (1..Len(h))
    BY <1>1 DEF OwnIn
  <2> QED
    BY <2>1, <2>2, FS_Subset
<1> QED
  BY <1>3, <1>4, FS_AddElement, FS_CardinalityType

LEMMA OneMoreForeign ==
  ASSUME NEW h \in Seq(Messages), NEW m \in Messages, NEW s,
         ~(s # NoName /\ m.agent.name = s.name)
  PROVE  /\ Cardinality(ForeignIn(Append(h, m), s)) = Cardinality(ForeignIn(h, s)) + 1
         /\ OwnIn(Append(h, m), s) = OwnIn(h, s)
<1>1. /\ DOMAIN Append(h, m) = 1..Len(h) + 1 /\ DOMAIN h = 1..Len(h) /\ Len(h) \in Nat
      /\ \A i \in 1..Len(h) : Append(h, m)[i] = h[i]
      /\ Append(h, m)[Len(h) + 1] = m
  BY AppendProperties, LenProperties
<1>2. /\ 1..Len(h) + 1 = 1..Len(h) \cup {Len(h) + 1}
      /\ Len(h) + 1 \notin 1..Len(h)
  BY <1>1
<1>3. /\ ForeignIn(Append(h, m), s) = ForeignIn(h, s) \cup {Len(h) + 1}
      /\ OwnIn(Append(h, m), s) = OwnIn(h, s)
      /\ Len(h) + 1 \notin ForeignIn(h, s)
  BY <1>1, <1>2 DEF OwnIn, ForeignIn
<1>4. IsFiniteSet(ForeignIn(h, s))
  <2>1. IsFiniteSet(1..Len(h))
    BY <1>1, FS_Interval
  <2>2. ForeignIn(h, s) \in SUBSET (1..Len(h))
    BY <1>1 DEF ForeignIn
  <2> QED
    BY <2>1, <2>2, FS_Subset
<1> QED
  BY <1>3, <1>4, FS_AddElement, FS_CardinalityType

\* The counters of a stream in a given state agree with what it was given.
StreamTally(state, a, r, h, s) ==
  /\ state \in {"new", "open", "completed"} => a = Cardinality(OwnIn(h, s))
  /\ state = "broken" => a \in {Cardinality(OwnIn(h, s)), Cardinality(OwnIn(h, s)) - 1}
  /\ r = Cardinality(ForeignIn(h, s))

\* A unary call has been given nothing before it is answered.
UnaryTally(state, h, s) ==
  /\ state \in {"new", "open"} => h = <<>>
  /\ state = "ACK" => Cardinality(OwnIn(h, s)) = 1
  /\ state = "mismatch" => Cardinality(ForeignIn(h, s)) = 1

TallyInv ==
  /\ \A c \in Calls : StreamTally(call[c], accepted[c], rejected[c], handled[c], cert[c])
  /\ \A r \in Requests : UnaryTally(call[r], handled[r], cert[r])

LEMMA NothingCounted ==
  ASSUME NEW s PROVE OwnIn(<<>>, s) = {} /\ ForeignIn(<<>>, s) = {}
BY DEF OwnIn, ForeignIn

LEMMA InitTallies == Init => TallyInv
<1> SUFFICES ASSUME Init PROVE TallyInv
  OBVIOUS
<1>1. Cardinality({}) = 0
  BY FS_EmptySet
<1>2. \A c \in AnyCall : call[c] = "new" /\ handled[c] = <<>>
  BY DEF Init
<1>3. ASSUME NEW c \in Calls
      PROVE  StreamTally(call[c], accepted[c], rejected[c], handled[c], cert[c])
  <2>1. accepted[c] = 0 /\ rejected[c] = 0 /\ call[c] = "new" /\ handled[c] = <<>>
    BY <1>2 DEF Init, AnyCall
  <2> QED
    BY <1>1, <2>1, NothingCounted DEF StreamTally
<1>4. ASSUME NEW r \in Requests PROVE UnaryTally(call[r], handled[r], cert[r])
  BY <1>2 DEF UnaryTally, AnyCall
<1> QED
  BY <1>3, <1>4 DEF TallyInv

\* A message is handled: the counters of its call, and the answer.
LEMMA HandledTallies ==
  ASSUME IInv, TallyInv, NEW c \in AnyCall, NEW m \in Fresh,
         \/ c \in Calls /\ (OnNext(c, m) \/ OnNextThrows(c, m))
         \/ c \in Requests /\ (SendEventRejects(c, m) \/ SendEventPublishes(c, m))
  PROVE  TallyInv'
<1>1. SessionsTyped /\ NameInv
  BY TypeSplit DEF IInv
<1>2. m \in Messages /\ m.agent \in Spellings /\ handled[c] \in Seq(Messages)
  BY <1>1 DEF Fresh, Messages, SessionsTyped
<1>3. Calls \cap Requests = {}
  BY ControlPlaneAssumption
<1>4. call[c] = "open"
  BY DEF OnNext, OnNextRejects, OnNextAccepts, OnNextThrows, SendEventRejects,
         SendEventPublishes
<1>5. Matches(c, m) <=> cert[c] # NoName /\ m.agent.name = cert[c].name
  <2>1. cert[c] # NoName /\ certCN[c] = ToLowerCase(cert[c]) /\ cert[c] \in Spellings
    BY <1>1, <1>4 DEF NameInv, SessionsTyped
  <2> QED
    BY <1>2, <2>1, LowerCase DEF Matches
<1>6. /\ UNCHANGED cert
      /\ handled' = [handled EXCEPT ![c] = Append(@, m)]
  BY DEF OnNext, OnNextRejects, OnNextAccepts, OnNextThrows, SendEventRejects,
         SendEventPublishes
<1>7. /\ handled'[c] = Append(handled[c], m) /\ cert'[c] = cert[c]
      /\ \A d \in AnyCall \ {c} : handled'[d] = handled[d] /\ cert'[d] = cert[d]
  BY <1>1, <1>6 DEF SessionsTyped
<1>8. CASE c \in Calls
  <2>1. OnNext(c, m) \/ OnNextThrows(c, m)
    BY <1>3, <1>8
  <2>2. /\ call' \in {call, [call EXCEPT ![c] = "broken"]}
        /\ accepted' \in {accepted, [accepted EXCEPT ![c] = @ + 1]}
        /\ rejected' \in {rejected, [rejected EXCEPT ![c] = @ + 1]}
    BY <2>1 DEF OnNext, OnNextRejects, OnNextAccepts, OnNextThrows, Goto, counters, Count
  <2>3. \A d \in AnyCall \ {c} : call'[d] = call[d]
    BY <1>1, <2>2 DEF SessionsTyped
  <2>4. \A d \in Calls \ {c} : accepted'[d] = accepted[d] /\ rejected'[d] = rejected[d]
    BY <1>1, <2>2 DEF SessionsTyped
  <2>5. StreamTally(call[c], accepted[c], rejected[c], handled[c], cert[c])
    BY <1>8 DEF TallyInv
  <2>6. accepted[c] \in Nat /\ rejected[c] \in Nat
    BY <1>1, <1>8 DEF SessionsTyped
  <2>7. StreamTally(call'[c], accepted'[c], rejected'[c], handled'[c], cert'[c])
    <3>1. CASE OnNextRejects(c, m)
      <4>1. /\ call'[c] = "open" /\ accepted'[c] = accepted[c]
            /\ rejected'[c] = rejected[c] + 1
        BY <1>1, <1>4, <1>8, <3>1 DEF OnNextRejects, Count, SessionsTyped
      <4>2. /\ Cardinality(ForeignIn(handled'[c], cert[c]))
              = Cardinality(ForeignIn(handled[c], cert[c])) + 1
            /\ OwnIn(handled'[c], cert[c]) = OwnIn(handled[c], cert[c])
        BY <1>2, <1>5, <1>7, <3>1, OneMoreForeign DEF OnNextRejects
      <4> QED
        BY <1>4, <1>7, <2>5, <4>1, <4>2 DEF StreamTally
    <3>2. CASE OnNextAccepts(c, m) \/ OnNextThrows(c, m)
      <4>1. rejected'[c] = rejected[c]
        BY <3>2 DEF OnNextAccepts, OnNextThrows, counters
      <4>2. \/ call'[c] = "open" /\ accepted'[c] = accepted[c] + 1
            \/ call'[c] = "broken" /\ accepted'[c] = accepted[c]
        <5>1. CASE OnNextAccepts(c, m)
          BY <1>1, <1>4, <1>8, <5>1 DEF OnNextAccepts, Count, SessionsTyped
        <5>2. CASE OnNextThrows(c, m)
          BY <1>1, <5>2 DEF OnNextThrows, counters, Goto, SessionsTyped
        <5> QED
          BY <3>2, <5>1, <5>2
      <4>3. /\ Cardinality(OwnIn(handled'[c], cert[c]))
              = Cardinality(OwnIn(handled[c], cert[c])) + 1
            /\ ForeignIn(handled'[c], cert[c]) = ForeignIn(handled[c], cert[c])
            /\ Cardinality(OwnIn(handled[c], cert[c])) \in Nat
        BY <1>2, <1>5, <1>7, <3>2, OneMoreOwn DEF OnNextAccepts, OnNextThrows
      <4> QED
        BY <1>4, <1>7, <2>5, <4>1, <4>2, <4>3 DEF StreamTally
    <3> QED
      BY <2>1, <3>1, <3>2 DEF OnNext
  <2>8. \A d \in Calls \ {c} : StreamTally(call'[d], accepted'[d], rejected'[d], handled'[d], cert'[d])
    BY <1>7, <2>3, <2>4 DEF TallyInv, AnyCall
  <2>9. \A r \in Requests : UnaryTally(call'[r], handled'[r], cert'[r])
    BY <1>3, <1>7, <1>8, <2>3 DEF TallyInv, AnyCall
  <2> QED
    BY <2>7, <2>8, <2>9 DEF TallyInv
<1>9. CASE c \in Requests
  <2>1. SendEventRejects(c, m) \/ SendEventPublishes(c, m)
    BY <1>3, <1>9
  <2>2. UNCHANGED counters
    BY <2>1 DEF SendEventRejects, SendEventPublishes
  <2>3. /\ call' = [call EXCEPT ![c] = call'[c]]
        /\ call'[c] \in {"mismatch", "ACK", "broken"}
        /\ call'[c] = "mismatch" => ~Matches(c, m)
        /\ call'[c] = "ACK" => Matches(c, m)
    BY <1>1, <2>1 DEF SendEventRejects, SendEventPublishes, Goto, SessionsTyped
  <2>4. \A d \in AnyCall \ {c} : call'[d] = call[d]
    BY <1>1, <2>3 DEF SessionsTyped
  <2>5. handled[c] = <<>>
    BY <1>4, <1>9 DEF TallyInv, UnaryTally
  <2>6. Cardinality({}) = 0
    BY FS_EmptySet
  <2>7. UnaryTally(call'[c], handled'[c], cert'[c])
    <3>1. CASE Matches(c, m)
      <4>1. Cardinality(OwnIn(handled'[c], cert[c]))
              = Cardinality(OwnIn(handled[c], cert[c])) + 1
        BY <1>2, <1>5, <1>7, <3>1, OneMoreOwn
      <4>2. OwnIn(handled[c], cert[c]) = {}
        BY <2>5, NothingCounted
      <4>3. Cardinality(OwnIn(handled'[c], cert'[c])) = 1
        BY <1>7, <2>6, <4>1, <4>2
      <4>4. call'[c] \notin {"new", "open"} /\ call'[c] # "mismatch"
        BY <2>3, <3>1
      <4> QED
        BY <4>3, <4>4 DEF UnaryTally
    <3>2. CASE ~Matches(c, m)
      <4>1. Cardinality(ForeignIn(handled'[c], cert[c]))
              = Cardinality(ForeignIn(handled[c], cert[c])) + 1
        BY <1>2, <1>5, <1>7, <3>2, OneMoreForeign
      <4>2. ForeignIn(handled[c], cert[c]) = {}
        BY <2>5, NothingCounted
      <4>3. Cardinality(ForeignIn(handled'[c], cert'[c])) = 1
        BY <1>7, <2>6, <4>1, <4>2
      <4>4. call'[c] \notin {"new", "open"} /\ call'[c] # "ACK"
        BY <2>3, <3>2
      <4> QED
        BY <4>3, <4>4 DEF UnaryTally
    <3> QED
      BY <3>1, <3>2
  <2>8. \A d \in Calls : StreamTally(call'[d], accepted'[d], rejected'[d], handled'[d], cert'[d])
    BY <1>3, <1>7, <1>9, <2>2, <2>4 DEF TallyInv, AnyCall, counters
  <2>9. \A r \in Requests \ {c} : UnaryTally(call'[r], handled'[r], cert'[r])
    BY <1>7, <2>4 DEF TallyInv, AnyCall
  <2> QED
    BY <2>7, <2>8, <2>9 DEF TallyInv
<1> QED
  BY <1>8, <1>9

\* A step that handles no message may only open a call, complete or break an
\* open one, or end one that was not let in.
LEMMA EndedTallies ==
  ASSUME TallyInv, UNCHANGED <<cert, counters, handled>>,
         \A c \in AnyCall :
           \/ call'[c] = call[c]
           \/ call[c] = "new"  /\ call'[c] \in {"unauthenticated", "open", "broken"}
           \/ call[c] = "open" /\ call'[c] = "broken"
           \/ c \in Calls /\ call[c] = "open" /\ call'[c] = "completed"
  PROVE  TallyInv'
<1>1. Calls \cap Requests = {}
  BY ControlPlaneAssumption
<1>2. ASSUME NEW c \in Calls
      PROVE  StreamTally(call'[c], accepted'[c], rejected'[c], handled'[c], cert'[c])
  <2>1. StreamTally(call[c], accepted[c], rejected[c], handled[c], cert[c])
    BY <1>2 DEF TallyInv
  <2>2. \/ call'[c] = call[c]
        \/ call[c] = "new"  /\ call'[c] \in {"unauthenticated", "open", "broken"}
        \/ call[c] = "open" /\ call'[c] \in {"broken", "completed"}
    BY <1>2 DEF AnyCall
  <2> QED
    BY <2>1, <2>2 DEF StreamTally, counters
<1>3. ASSUME NEW r \in Requests
      PROVE  UnaryTally(call'[r], handled'[r], cert'[r])
  <2>1. UnaryTally(call[r], handled[r], cert[r])
    BY <1>3 DEF TallyInv
  <2>2. \/ call'[r] = call[r]
        \/ call[r] = "new"  /\ call'[r] \in {"unauthenticated", "open", "broken"}
        \/ call[r] = "open" /\ call'[r] = "broken"
    BY <1>1, <1>3 DEF AnyCall
  <2> QED
    BY <2>1, <2>2 DEF UnaryTally
<1> QED
  BY <1>2, <1>3 DEF TallyInv

LEMMA StepTallies == IInv /\ TallyInv /\ [Next]_vars => TallyInv'
<1> SUFFICES ASSUME IInv, TallyInv, [Next]_vars PROVE TallyInv'
  OBVIOUS
<1>1. call \in [AnyCall -> CallStates]
  BY DEF IInv, TypeOK
<1>2. ASSUME NEW c \in AnyCall,
             Unauthenticated(c) \/ Intercept(c) \/ (c \in Calls /\ (OnCompleted(c) \/ OnError(c)))
      PROVE  TallyInv'
  <2>1. UNCHANGED <<cert, counters, handled>>
    BY <1>2 DEF Unauthenticated, Intercept, OnCompleted, OnError
  <2>2. \/ call[c] = "new" /\ Goto(c, "unauthenticated")
        \/ call[c] = "new" /\ Goto(c, "open")
        \/ c \in Calls /\ call[c] = "open" /\ Goto(c, "completed")
        \/ call[c] \in {"new", "open"} /\ Goto(c, "broken")
    BY <1>2 DEF Unauthenticated, Intercept, OnCompleted, OnError
  <2>3. \A d \in AnyCall :
           \/ call'[d] = call[d]
           \/ call[d] = "new"  /\ call'[d] \in {"unauthenticated", "open", "broken"}
           \/ call[d] = "open" /\ call'[d] = "broken"
           \/ d \in Calls /\ call[d] = "open" /\ call'[d] = "completed"
    BY <1>1, <2>2 DEF Goto
  <2> QED
    BY <2>1, <2>3, EndedTallies
<1>3. ASSUME NEW c \in AnyCall, NEW m \in Fresh,
             \/ c \in Calls /\ (OnNext(c, m) \/ OnNextThrows(c, m))
             \/ c \in Requests /\ (SendEventRejects(c, m) \/ SendEventPublishes(c, m))
      PROVE  TallyInv'
  BY <1>3, HandledTallies
<1>4. ASSUME Producer \/ UNCHANGED vars PROVE TallyInv'
  <2>1. UNCHANGED sessions
    BY <1>4 DEF Producer, Ack, PublishFails, vars
  <2> QED
    BY <2>1, EndedTallies DEF sessions
<1>5. CASE Restart
  <2>1. UNCHANGED <<cert, counters, handled>>
    BY <1>5 DEF Restart
  <2>2. \A c \in AnyCall : call'[c] = call[c] \/ (call[c] = "open" /\ call'[c] = "broken")
    BY <1>5 DEF Restart
  <2> QED
    BY <2>1, <2>2, EndedTallies
<1> QED
  BY <1>2, <1>3, <1>4, <1>5 DEF Next, Service

\* For any number of calls, messages and failures: the counters that a completed
\* stream answers with are the numbers of its own and of its foreign events, and
\* a unary call's answer is that of its one event
\* (IngestionServiceImpl.java:35-107).
THEOREM SummariesAddUp == Spec => []SummaryAddsUp
<1>1. IInv /\ TallyInv => SummaryAddsUp
  BY DEF TallyInv, StreamTally, UnaryTally, SummaryAddsUp, OwnOf, ForeignOf, Own,
         OwnIn, ForeignIn
<1> QED
  BY <1>1, InitTallies, StepTallies, Invariance, PTL DEF Spec
-----------------------------------------------------------------------------
(* What is in the topic stays, and what failed or was forgotten stays away.  *)

\* Nobody handles another call's event.
OneCall ==
  \A c, d \in AnyCall : \A m \in ToSet(handled[c]), n \in ToSet(handled[d]) :
    m.id = n.id => c = d

\* An event is in the partition of one agent only.
LEMMA OnePlace ==
  ASSUME IInv, OneCall, NEW k \in Keys, NEW l \in Keys,
         NEW e \in ToSet(Partition(k)), e \in ToSet(Partition(l))
  PROVE  k = l
<1>1. PICK c \in AnyCall : \E m \in ToSet(handled[c]) : m.id = e /\ k.name = cert[c].name
  BY DEF IInv, CertInv, CertifiedOnly
<1>2. PICK d \in AnyCall : \E m \in ToSet(handled[d]) : m.id = e /\ l.name = cert[d].name
  BY DEF IInv, CertInv, CertifiedOnly
<1>3. k.name = l.name
  BY <1>1, <1>2 DEF OneCall
<1> QED
  BY <1>3 DEF Keys, Spellings

Spent    == failed \cup forgotten
SpentInv == \A key \in Keys : ToSet(buffer[key]) \cap Spent = {}

LEMMA InitSpends == Init => OneCall /\ SpentInv
<1>1. ToSet(<<>>) = {}
  BY DEF ToSet
<1> QED
  BY <1>1 DEF Init, OneCall, SpentInv, Spent

\* A message's event is new, so it has not been given up and is in no buffer.
LEMMA HandledSpends ==
  ASSUME IInv, OneCall, SpentInv, NEW c \in AnyCall, NEW m \in Fresh, Handles(c, m)
  PROVE  OneCall' /\ SpentInv'
<1>1. SessionsTyped /\ KafkaTyped
  BY TypeSplit DEF IInv
<1>2. m \in Messages /\ m.id \in Events /\ m.id \notin Sent
  BY DEF Fresh, Messages
<1>3. \A d \in AnyCall : ToSet(handled'[d]) \subseteq
        ToSet(handled[d]) \cup {x \in {m} : d = c}
  BY <1>1, <1>2, ToSetAppend DEF Handles, SessionsTyped
<1>4. OneCall'
  <2>1. \A d, e \in AnyCall : \A x \in ToSet(handled'[d]), y \in ToSet(handled'[e]) :
          x.id = y.id => d = e
    BY <1>2, <1>3 DEF OneCall, Sent
  <2> QED
    BY <2>1 DEF OneCall, ToSet
<1>5. /\ m.id \notin Spent
      /\ \A key \in Keys : m.id \notin ToSet(buffer[key])
  BY <1>1, <1>2, PartitionHolds DEF IInv, CertInv, Published, Spent
<1>6. \/ /\ Spent' \subseteq Spent \cup {m.id}
         /\ \A key \in Keys : ToSet(buffer'[key]) = ToSet(buffer[key])
      \/ /\ Spent' = Spent
         /\ \A key \in Keys : ToSet(buffer'[key]) \subseteq ToSet(buffer[key]) \cup {m.id}
  <2>1. CASE UNCHANGED kafka \/ NotSerialised(m.id) \/ SendThrows(m.id)
    BY <2>1 DEF kafka, NotSerialised, SendThrows, Spent
  <2>2. CASE Enqueue(certCN[c], m.id)
    <3>1. \A key \in Keys : /\ buffer'[key] \in {buffer[key], Append(buffer[key], m.id)}
                            /\ buffer[key] \in Seq(Events)
      BY <1>1, <2>2 DEF Enqueue, InCallOrder, KafkaTyped
    <3>2. \A key \in Keys :
            ToSet(Append(buffer[key], m.id)) = ToSet(buffer[key]) \cup {m.id}
      BY <1>2, <3>1, ToSetAppend
    <3> QED
      BY <2>2, <3>1, <3>2 DEF Enqueue, Spent
  <2> QED
    BY <2>1, <2>2 DEF Handles, Publish
<1>7. \A key \in Keys : ToSet(buffer'[key]) \cap Spent' = {}
  BY <1>5, <1>6 DEF SpentInv
<1> QED
  BY <1>4, <1>7 DEF SpentInv, ToSet

\* The first element of an injective sequence's end is not in the rest of it.
LEMMA Positions ==
  ASSUME NEW a \in Nat, NEW b \in Nat \ {0}, NEW i \in 1..b - 1
  PROVE  /\ a + 1 \in 1..a + b /\ a + (i + 1) \in 1..a + b /\ a + (i + 1) # a + 1
         /\ ~(a + 1 <= a) /\ ~(a + (i + 1) <= a)
         /\ (a + 1) - a = 1 /\ (a + (i + 1)) - a = i + 1
OBVIOUS

LEMMA HeadIsGone ==
  ASSUME NEW s \in Seq(Events), NEW t \in Seq(Events), t # <<>>, IsInjective(s \o t)
  PROVE  Head(t) \notin ToSet(Tail(t))
<1> DEFINE st == s \o t
<1>1. /\ DOMAIN Tail(t) = 1..Len(t) - 1
      /\ Len(t) \in Nat \ {0} /\ Len(s) \in Nat
      /\ Head(t) = t[1]
      /\ \A i \in 1..Len(t) - 1 : Tail(t)[i] = t[i + 1]
  BY HeadTailProperties, LenProperties, EmptySeq
<1>2. /\ DOMAIN st = 1..Len(s) + Len(t)
      /\ \A i \in 1..Len(s) + Len(t) : st[i] = IF i <= Len(s) THEN s[i] ELSE t[i - Len(s)]
  BY ConcatIs, LenProperties
<1>3. \A i, j \in 1..Len(s) + Len(t) : st[i] = st[j] => i = j
  BY <1>2 DEF IsInjective
<1> HIDE DEF st
<1>4. ASSUME NEW i \in 1..Len(t) - 1
      PROVE  t[i + 1] # t[1]
  <2>1. PICK a \in Nat : a = Len(s)
    BY <1>1
  <2>2. PICK b \in Nat \ {0} : b = Len(t)
    BY <1>1
  <2>3. /\ a + 1 \in 1..a + b /\ a + (i + 1) \in 1..a + b /\ a + (i + 1) # a + 1
        /\ ~(a + 1 <= a) /\ ~(a + (i + 1) <= a)
        /\ (a + 1) - a = 1 /\ (a + (i + 1)) - a = i + 1
    BY <2>2, Positions
  <2>4. st[a + 1] = t[1] /\ st[a + (i + 1)] = t[i + 1]
    BY <1>2, <2>1, <2>2, <2>3
  <2> QED
    BY <1>3, <2>1, <2>2, <2>3, <2>4
<1> QED
  BY <1>1, <1>4 DEF ToSet

\* A record that the producer is done with is in no buffer any more.
LEMMA ProducerSpends ==
  ASSUME IInv, InSessionOrder, OneCall, SpentInv,
         NEW key \in Keys, Ack(key) \/ PublishFails(key)
  PROVE  SpentInv'
<1>1. KafkaTyped
  BY TypeSplit DEF IInv
<1>2. PICK e \in Events : e = Head(buffer[key])
  BY <1>1, HeadTailProperties DEF Ack, PublishFails, KafkaTyped
<1>3. /\ buffer[key] \in Seq(Events) /\ buffer[key] # <<>>
      /\ topic[key] \in Seq(Events)
      /\ buffer'[key] = Tail(buffer[key])
      /\ \A k \in Keys : k # key => buffer'[k] = buffer[k]
      /\ Spent' \subseteq Spent \cup {e}
  BY <1>1, <1>2 DEF Ack, PublishFails, RestOf, KafkaTyped, Spent
<1>4. ToSet(buffer[key]) = {e} \cup ToSet(Tail(buffer[key]))
  BY <1>2, <1>3, ToSetTail
<1>5. e \notin ToSet(Tail(buffer[key]))
  BY <1>2, <1>3, HeadIsGone DEF InSessionOrder, Partition
<1>6. ASSUME NEW k \in Keys PROVE ToSet(buffer'[k]) \cap Spent' = {}
  <2>1. e \notin ToSet(buffer'[k])
    <3>1. CASE k = key
      BY <1>3, <1>5, <3>1
    <3>2. CASE k # key
      BY <1>1, <1>3, <1>4, <3>2, OnePlace, PartitionHolds
    <3> QED
      BY <3>1, <3>2
  <2>2. ToSet(buffer'[k]) \subseteq ToSet(buffer[k])
    BY <1>3, <1>4
  <2> QED
    BY <1>3, <2>1, <2>2 DEF SpentInv
<1> QED
  BY <1>6 DEF SpentInv, ToSet

LEMMA StepSpends ==
  IInv /\ InSessionOrder /\ OneCall /\ SpentInv /\ [Next]_vars => OneCall' /\ SpentInv'
<1> SUFFICES ASSUME IInv, InSessionOrder, OneCall, SpentInv, [Next]_vars
             PROVE  OneCall' /\ SpentInv'
  OBVIOUS
<1>1. ASSUME UNCHANGED handled PROVE OneCall'
  BY <1>1 DEF OneCall, ToSet
<1>2. ASSUME UNCHANGED kafka PROVE SpentInv'
  BY <1>2 DEF SpentInv, Spent, kafka, ToSet
<1>3. ASSUME NEW c \in AnyCall, Service(c) PROVE OneCall' /\ SpentInv'
  <2>1. CASE Unauthenticated(c) \/ Intercept(c) \/ OnCompleted(c) \/ OnError(c)
    BY <1>1, <1>2, <2>1 DEF Unauthenticated, Intercept, OnCompleted, OnError
  <2>2. ASSUME NEW m \in Fresh,
               \/ OnNext(c, m) \/ OnNextThrows(c, m)
               \/ SendEventRejects(c, m) \/ SendEventPublishes(c, m)
        PROVE  OneCall' /\ SpentInv'
    <3>1. Handles(c, m)
      BY <2>2 DEF OnNext, OnNextRejects, OnNextAccepts, OnNextThrows,
                  SendEventRejects, SendEventPublishes, Handles
    <3> QED
      BY <3>1, HandledSpends
  <2> QED
    BY <1>3, <2>1, <2>2 DEF Service
<1>4. CASE Producer
  <2>1. UNCHANGED handled
    BY <1>4 DEF Producer, Ack, PublishFails, sessions
  <2> QED
    BY <1>1, <1>4, <2>1, ProducerSpends DEF Producer
<1>5. CASE Restart
  <2>1. UNCHANGED handled /\ buffer' = [k \in Keys |-> <<>>]
    BY <1>5 DEF Restart
  <2>2. SpentInv'
    <3>1. \A key \in Keys : ToSet(buffer'[key]) = {}
      BY <2>1 DEF ToSet
    <3> QED
      BY <3>1 DEF SpentInv, ToSet
  <2> QED
    BY <1>1, <2>1, <2>2
<1>6. CASE UNCHANGED vars
  BY <1>1, <1>2, <1>6 DEF vars, sessions
<1> QED
  BY <1>3, <1>4, <1>5, <1>6 DEF Next

LEMMA PrefixOfConcat ==
  ASSUME NEW s \in Seq(Events), NEW t \in Seq(Events)
  PROVE  IsPrefix(s, s \o t)
<1>1. Len(s) \in Nat /\ Len(t) \in Nat
  BY LenProperties
<1>2. Len(s \o t) = Len(s) + Len(t)
  BY ConcatIs
<1>3. SubSeq(s, 1, Len(s)) = SubSeq(s \o t, 1, Len(s))
  <2>1. CASE Len(s) = 0
    BY <2>1, SubSeqEmpty
  <2>2. CASE Len(s) # 0
    <3>1. 1 \in 1..Len(s) /\ Len(s) \in 1..Len(s)
      BY <1>1, <2>2
    <3> QED
      BY <3>1, SubSeqOfConcat1
  <2> QED
    BY <2>1, <2>2
<1>4. Len(s) <= Len(s \o t)
  BY <1>1, <1>2
<1> QED
  BY <1>3, <1>4 DEF IsPrefix

\* A step only adds: to the messages handled, to what has failed or has been
\* forgotten, and to the end of the topic, there only what the producer held.
Onward ==
  /\ cert' = cert
  /\ Spent \subseteq Spent'
  /\ \A c \in AnyCall : handled'[c] \in
       {handled[c]} \cup {Append(handled[c], m) : m \in Messages}
  /\ \A key \in Keys :
       /\ IsPrefix(topic[key], topic'[key])
       /\ ToSet(topic'[key]) \subseteq ToSet(topic[key]) \cup ToSet(buffer[key])

LEMMA StepOnward == IInv /\ [Next]_vars => Onward
<1> SUFFICES ASSUME IInv, [Next]_vars PROVE Onward
  OBVIOUS
<1>1. SessionsTyped /\ KafkaTyped
  BY TypeSplit DEF IInv
<1>2. \A key \in Keys : topic[key] \in Seq(Events) /\ buffer[key] \in Seq(Events)
  BY <1>1 DEF KafkaTyped
<1>3. \A key \in Keys : IsPrefix(topic[key], topic[key])
  BY DEF IsPrefix
<1>4. ASSUME UNCHANGED <<cert, topic>>, Spent \subseteq Spent',
             \/ UNCHANGED handled
             \/ \E c \in AnyCall, m \in Messages :
                  handled' = [handled EXCEPT ![c] = Append(@, m)]
      PROVE  Onward
  BY <1>1, <1>3, <1>4 DEF Onward, SessionsTyped
<1>5. ASSUME NEW c \in AnyCall, Service(c) PROVE Onward
  <2>1. CASE Unauthenticated(c) \/ Intercept(c) \/ OnCompleted(c) \/ OnError(c)
    BY <1>4, <2>1 DEF Unauthenticated, Intercept, OnCompleted, OnError, kafka, Spent
  <2>2. ASSUME NEW m \in Fresh,
               \/ OnNext(c, m) \/ OnNextThrows(c, m)
               \/ SendEventRejects(c, m) \/ SendEventPublishes(c, m)
        PROVE  Onward
    <3>1. Handles(c, m)
      BY <2>2 DEF OnNext, OnNextRejects, OnNextAccepts, OnNextThrows,
                  SendEventRejects, SendEventPublishes, Handles
    <3>2. m \in Messages
      BY DEF Fresh
    <3>3. UNCHANGED topic /\ Spent \subseteq Spent'
      BY <3>1 DEF Handles, Publish, Enqueue, NotSerialised, SendThrows, kafka, Spent
    <3> QED
      BY <1>4, <3>1, <3>2, <3>3 DEF Handles
  <2> QED
    BY <1>5, <2>1, <2>2 DEF Service
<1>6. ASSUME NEW key \in Keys, Ack(key) \/ PublishFails(key) PROVE Onward
  <2>1. PICK e \in Events : e = Head(buffer[key]) /\ e \in ToSet(buffer[key])
    BY <1>2, <1>6, HeadTailProperties, ToSetTail DEF Ack, PublishFails
  <2>2. /\ Append(topic[key], e) = topic[key] \o <<e>> /\ <<e>> \in Seq(Events)
        /\ ToSet(Append(topic[key], e)) = ToSet(topic[key]) \cup {e}
    BY <1>2, <2>1, AppendIsConcat, ToSetAppend
  <2>3. IsPrefix(topic[key], Append(topic[key], e))
    <3>1. PICK x \in Seq(Events) : x = <<e>>
      BY <2>2
    <3> QED
      BY <1>2, <2>2, <3>1, PrefixOfConcat
  <2>4. \A k \in Keys : \/ topic'[k] = topic[k]
                        \/ k = key /\ topic'[k] = Append(topic[key], e)
    BY <1>1, <1>6, <2>1 DEF Ack, PublishFails, KafkaTyped
  <2>5. UNCHANGED sessions /\ Spent \subseteq Spent'
    BY <1>6 DEF Ack, PublishFails, Spent
  <2> QED
    BY <1>3, <2>1, <2>2, <2>3, <2>4, <2>5 DEF Onward, sessions
<1>7. CASE Restart
  <2>1. PICK n \in [Keys -> 0..BufferMemory] :
          /\ \A key \in Keys : n[key] <= Len(buffer[key])
          /\ topic' = [key \in Keys |-> topic[key] \o SubSeq(buffer[key], 1, n[key])]
    BY <1>7 DEF Restart
  <2>2. ASSUME NEW key \in Keys
        PROVE  /\ IsPrefix(topic[key], topic'[key])
               /\ ToSet(topic'[key]) \subseteq ToSet(topic[key]) \cup ToSet(buffer[key])
    <3>1. n[key] \in 0..Len(buffer[key])
      BY <2>1, ControlPlaneAssumption
    <3>2. PICK s \in Seq(Events) : /\ s = SubSeq(buffer[key], 1, n[key])
                                   /\ ToSet(s) \subseteq ToSet(buffer[key])
      <4>1. /\ SubSeq(buffer[key], 1, n[key]) \in Seq(Events)
            /\ ToSet(SubSeq(buffer[key], 1, n[key])) \subseteq ToSet(buffer[key])
        BY <1>2, <3>1, ToSetCut
      <4> QED
        BY <4>1
    <3>3. topic'[key] = topic[key] \o s
      BY <2>1, <3>2
    <3>4. ToSet(topic[key] \o s) = ToSet(topic[key]) \cup ToSet(s)
      BY <1>2, ToSetConcat
    <3> QED
      BY <1>2, <3>2, <3>3, <3>4, PrefixOfConcat
  <2>3. UNCHANGED <<cert, handled>> /\ Spent \subseteq Spent'
    BY <1>7 DEF Restart, Spent
  <2> QED
    BY <2>2, <2>3 DEF Onward
<1>8. CASE UNCHANGED vars
  BY <1>4, <1>8 DEF vars, sessions, kafka, Spent
<1> QED
  BY <1>5, <1>6, <1>7, <1>8 DEF Next, Producer

=============================================================================
