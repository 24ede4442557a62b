---------------------------- MODULE Archive_proofs ----------------------------
(* Theorems about Archive, for all packets the repository declares, any objects *)
(* and any width of the numbers.                                                *)
EXTENDS Archive, SequenceFacts

------------------------------------------------------------------------------
(* The conversions *)

\* a number between 0 and the modulus is its own remainder
LEMMA SmallMod ==
  ASSUME NEW n \in Nat, NEW m \in Nat \ {0}, n < m
  PROVE  n % m = n
  BY SMT

\* A date before 1970 or after it comes back from the unsigned count it travels as
\* (mql-cpp/common.hpp:27 and :36), whatever the width of the two integers.
THEOREM DatesTravel == \A date \in Dates : DateFromWire(DateToWire(date)) = date
<1> TAKE date \in Dates
<1>1. Half \in Nat \ {0} /\ date \in Int /\ -Half <= date /\ date < Half
  BY HalfAssumption DEF Dates
<1>2. CASE date >= 0
  <2>1. date % (2 * Half) = date
    BY <1>1, <1>2, SmallMod
  <2> QED
    BY <1>1, <1>2, <2>1 DEF DateToWire, DateFromWire
<1>3. CASE date < 0
  <2>1. date % (2 * Half) = date + 2 * Half
    BY <1>1, <1>3, SMT
  <2> QED
    BY <1>1, <1>3, <2>1 DEF DateToWire, DateFromWire
<1> QED
  BY <1>1, <1>2, <1>3

\* No two enumerators of an enumeration have a number in common.
Distinct(enum) == \A a, b \in DOMAIN enum : enum[a] = enum[b] => a = b

LEMMA Enumerations ==
  /\ Distinct(EnumAccountTradeMode) /\ Distinct(EnumAccountStopOutMode)
  /\ Distinct(EnumAccountMarginMode) /\ Distinct(EnumOrderType) /\ Distinct(EnumOrderState)
  /\ Distinct(EnumOrderTypeFilling) /\ Distinct(EnumOrderTypeTime) /\ Distinct(EnumOrderReason)
  /\ Distinct(EnumPositionType) /\ Distinct(EnumPositionReason) /\ Distinct(EnumDealType)
  /\ Distinct(EnumDealEntry) /\ Distinct(EnumDealReason)
<1>1. Distinct(EnumAccountTradeMode) /\ Distinct(EnumAccountStopOutMode) /\ Distinct(EnumAccountMarginMode)
  BY DEF Distinct, EnumAccountTradeMode, EnumAccountStopOutMode, EnumAccountMarginMode
<1>2. Distinct(EnumOrderType)
  BY DEF Distinct, EnumOrderType
<1>3. Distinct(EnumOrderState)
  BY DEF Distinct, EnumOrderState
<1>4. Distinct(EnumOrderTypeFilling) /\ Distinct(EnumOrderTypeTime)
  BY DEF Distinct, EnumOrderTypeFilling, EnumOrderTypeTime
<1>5. Distinct(EnumOrderReason)
  BY DEF Distinct, EnumOrderReason
<1>6. Distinct(EnumPositionType) /\ Distinct(EnumPositionReason)
  BY DEF Distinct, EnumPositionType, EnumPositionReason
<1>7. Distinct(EnumDealType)
  BY DEF Distinct, EnumDealType
<1>8. Distinct(EnumDealEntry)
  BY DEF Distinct, EnumDealEntry
<1>9. Distinct(EnumDealReason)
  BY DEF Distinct, EnumDealReason
<1> QED BY <1>1, <1>2, <1>3, <1>4, <1>5, <1>6, <1>7, <1>8, <1>9

LEMMA FieldEnumerations ==
  ASSUME NEW p, NEW field \in DOMAIN PacketEnums(p)
  PROVE  Distinct(PacketEnums(p)[field])
<1> DEFINE Good(enums) == \A f \in DOMAIN enums : Distinct(enums[f])
<1>1. Good(AccountEnums)
  BY Enumerations DEF AccountEnums
<1>2. Good(Mql5AccountEnums)
  BY Enumerations DEF Mql5AccountEnums
<1>3. Good(OrderEnums)
  BY Enumerations DEF OrderEnums
<1>4. Good(PositionEnums)
  BY Enumerations DEF PositionEnums
<1>5. Good(DealEnums)
  BY Enumerations DEF DealEnums
<1>6. Good(<< >>)
  BY DEF Distinct
<1>7. \A s : Good(EnumsOf(s))
  <2> HIDE DEF Good
  <2> QED BY <1>1, <1>2, <1>3, <1>4, <1>5, <1>6 DEF EnumsOf
<1>8. Good(PacketEnums(p))
  <2> HIDE DEF Good
  <2> QED BY <1>6, <1>7 DEF PacketEnums
<1> QED BY <1>8

\* An enumerator comes back from the int it travels as.
LEMMA EnumeratorsTravel ==
  ASSUME NEW enum, Distinct(enum), NEW e \in DOMAIN enum
  PROVE  EnumFromWire(enum, EnumToWire(enum, e)) = e
BY DEF Distinct, EnumFromWire, EnumToWire

\* What is read of a field is what was written of it.
LEMMA FieldsTravel ==
  ASSUME NEW p, NEW field, NEW v,
         field \in DateFields => v \in Dates,
         field \in DOMAIN PacketEnums(p) => v \in DOMAIN PacketEnums(p)[field]
  PROVE  FromWire(p, field, ToWire(p, field, v)) = v
<1>1. CASE field \in DateFields
  BY <1>1, DatesTravel DEF FromWire, ToWire
<1>2. CASE field \notin DateFields /\ field \in DOMAIN PacketEnums(p)
  BY <1>2, FieldEnumerations, EnumeratorsTravel DEF FromWire, ToWire
<1>3. CASE field \notin DateFields /\ field \notin DOMAIN PacketEnums(p)
  BY <1>3 DEF FromWire, ToWire
<1> QED BY <1>1, <1>2, <1>3

------------------------------------------------------------------------------
(* The two numbers of a type *)

\* No two packets share their two numbers.
LEMMA IdsDiffer ==
  ASSUME NEW p \in PacketNames, NEW q \in PacketNames, UniqueId(p) = UniqueId(q)
  PROVE  p = q
<1>1. Distinct(CryptoPackets) /\ Distinct(NetworkPackets) /\ Distinct(NodePackets)
  BY DEF Distinct, CryptoPackets, NetworkPackets, NodePackets
<1>2. Distinct(TradePackets)
  BY SMTT(120) DEF Distinct, TradePackets
<1>3. ASSUME NEW x \in PacketNames
      PROVE  \/ x \in DOMAIN CryptoPackets /\ UniqueId(x) = <<1, CryptoPackets[x]>>
             \/ x \in DOMAIN NetworkPackets /\ UniqueId(x) = <<2, NetworkPackets[x]>>
             \/ x \in DOMAIN TradePackets /\ UniqueId(x) = <<3, TradePackets[x]>>
             \/ x \in DOMAIN NodePackets /\ UniqueId(x) = <<4, NodePackets[x]>>
  BY DEF PacketNames, UniqueId, PacketSubsystemCrypto, PacketSubsystemNetwork,
         PacketSubsystemTradeInfo, PacketSubsystemNodeInfo
<1> QED BY <1>1, <1>2, <1>3 DEF Distinct

\* The receiver takes the packet for what it is.
LEMMA TypeFound ==
  ASSUME NEW p \in PacketNames
  PROVE  TypeOf(UniqueId(p)) = p /\ UniqueId(p) # <<>>
<1>1. TypeOf(UniqueId(p)) = p
  BY IdsDiffer DEF TypeOf
<1>2. UniqueId(p) # <<>>
  BY DEF UniqueId, PacketNames
<1> QED BY <1>1, <1>2

------------------------------------------------------------------------------
(* The fields of a type *)

\* A sequence of whatever it holds.
IsSequence(s) == s \in Seq(ToSet(s))

LEMMA SequencesJoin ==
  ASSUME NEW s, NEW t, IsSequence(s), IsSequence(t)
  PROVE  IsSequence(s \o t)
<1> DEFINE S == ToSet(s) \cup ToSet(t)
           u == s \o t
<1>1. s \in Seq(S) /\ t \in Seq(S)
  BY SeqMonotone DEF IsSequence
<1>2. u \in Seq(S)
  BY <1>1
<1> HIDE DEF S, u
<1>3. u \in Seq(ToSet(u))
  BY <1>2 DEF ToSet
<1> QED BY <1>3 DEF IsSequence, u

LEMMA AccountStructures ==
  /\ IsSequence(AccountInfoDouble) /\ IsSequence(AccountInfoString)
  /\ IsSequence(AccountInfoInteger) /\ IsSequence(AccountInfoDoubleMinimal)
  /\ IsSequence(AccountInfoIntegerMinimal) /\ IsSequence(AccountInfoMinimal)
  /\ IsSequence(FullAccountInfo) /\ IsSequence(Mql5AccountInfoInteger)
  /\ IsSequence(Mql5AccountInfoDouble)
<1>1. IsSequence(AccountInfoDouble) /\ IsSequence(AccountInfoString)
  BY DEF AccountInfoDouble, AccountInfoString, IsSequence, ToSet
<1>2. IsSequence(AccountInfoInteger) /\ IsSequence(Mql5AccountInfoInteger)
  BY DEF AccountInfoInteger, Mql5AccountInfoInteger, IsSequence, ToSet
<1>3. IsSequence(Mql5AccountInfoDouble) /\ IsSequence(AccountInfoDoubleMinimal)
  BY DEF Mql5AccountInfoDouble, AccountInfoDoubleMinimal, IsSequence, ToSet
<1>4. IsSequence(AccountInfoIntegerMinimal)
  BY DEF AccountInfoIntegerMinimal, IsSequence, ToSet
<1>5. IsSequence(AccountInfoMinimal) /\ IsSequence(FullAccountInfo)
  BY <1>1, <1>2, <1>3, <1>4, SequencesJoin DEF AccountInfoMinimal, FullAccountInfo
<1> QED BY <1>1, <1>2, <1>3, <1>4, <1>5

LEMMA TradeStructures ==
  /\ IsSequence(OrderInfoInteger) /\ IsSequence(OrderInfoDouble)
  /\ IsSequence(OrderInfoString) /\ IsSequence(OrderInfo)
  /\ IsSequence(PositionInfoInteger) /\ IsSequence(PositionInfoDouble)
  /\ IsSequence(PositionInfoString) /\ IsSequence(PositionInfo)
  /\ IsSequence(DealInfoInteger) /\ IsSequence(DealInfoDouble)
  /\ IsSequence(DealInfoString) /\ IsSequence(DealInfo)
  /\ IsSequence(Mql4OrderInfo)
<1>1. IsSequence(OrderInfoInteger)
  BY DEF OrderInfoInteger, IsSequence, ToSet
<1>2. IsSequence(OrderInfoDouble) /\ IsSequence(OrderInfoString)
  BY DEF OrderInfoDouble, OrderInfoString, IsSequence, ToSet
<1>3. IsSequence(PositionInfoInteger)
  BY DEF PositionInfoInteger, IsSequence, ToSet
<1>4. IsSequence(PositionInfoDouble) /\ IsSequence(PositionInfoString)
  BY DEF PositionInfoDouble, PositionInfoString, IsSequence, ToSet
<1>5. IsSequence(DealInfoInteger)
  BY DEF DealInfoInteger, IsSequence, ToSet
<1>6. IsSequence(DealInfoDouble) /\ IsSequence(DealInfoString)
  BY DEF DealInfoDouble, DealInfoString, IsSequence, ToSet
<1>7. IsSequence(Mql4OrderInfo)
  BY DEF Mql4OrderInfo, IsSequence, ToSet
<1>8. IsSequence(OrderInfo) /\ IsSequence(PositionInfo) /\ IsSequence(DealInfo)
  BY <1>1, <1>2, <1>3, <1>4, <1>5, <1>6, SequencesJoin DEF OrderInfo, PositionInfo, DealInfo
<1> QED BY <1>1, <1>2, <1>3, <1>4, <1>5, <1>6, <1>7, <1>8

\* What a packet is serialised as is a sequence of fields.
LEMMA FieldsType ==
  ASSUME NEW p
  PROVE  IsSequence(Fields(p))
<1>1. \A s \in DOMAIN Serialized : IsSequence(Serialized[s])
  BY AccountStructures, TradeStructures DEF Serialized
<1>2. \A x \in DOMAIN BaseOf : BaseOf[x] \in DOMAIN Serialized
  BY DEF BaseOf, Serialized
<1>3. /\ IsSequence(PacketTag) /\ IsSequence(<<"MQL4", "MQL5">>) /\ IsSequence(<<"public_key">>)
      /\ IsSequence(<<"message">>) /\ IsSequence(<<"echo_message">>) /\ IsSequence(<<>>)
  BY DEF PacketTag, IsSequence, ToSet
<1>4. IsSequence(DHKeyExchangeResponse) /\ IsSequence(NodeInformation)
  BY DEF DHKeyExchangeResponse, NodeInformation, IsSequence, ToSet
<1>5. \A s : IsSequence(s) => IsSequence(PacketTag \o s)
  BY <1>3, SequencesJoin
<1>6. p \in DOMAIN BaseOf => IsSequence(PacketTag \o Serialized[BaseOf[p]])
  BY <1>1, <1>2, <1>5
<1> QED BY <1>3, <1>4, <1>5, <1>6 DEF Fields

\* A set of naturals with a bound has a greatest element, which is Max of it.
LEMMA MaxFound ==
  ASSUME NEW n \in Nat, NEW T, T \subseteq 0..n, T # {}
  PROVE  Max(T) \in T
<1> DEFINE U == {n - x : x \in T}
<1>1. U \subseteq Nat /\ U # {}
  <2>1. \A x \in T : x \in 0..n
    OBVIOUS
  <2>2. \A x \in 0..n : n - x \in Nat
    OBVIOUS
  <2> QED BY <2>1, <2>2
<1>2. PICK u \in U : \A v \in U : u <= v
  BY <1>1, Smallest
<1>3. PICK x \in T : u = n - x
  BY <1>2
<1>4. \A y \in T : x >= y
  <2> TAKE y \in T
  <2>1. n - x <= n - y /\ x \in 0..n /\ y \in 0..n
    BY <1>2, <1>3
  <2> QED BY <2>1
<1> QED BY <1>3, <1>4 DEF Max

\* The last read of a field is a read of it; of another there is none.
LEMMA LastReadFound ==
  ASSUME NEW p, NEW field \in ToSet(Fields(p))
  PROVE  LastRead(p, field) \in DOMAIN Fields(p) /\ Fields(p)[LastRead(p, field)] = field
<1> DEFINE n == Len(Fields(p))
           T == {j \in 1..n : Fields(p)[j] = field}
<1>1. DOMAIN Fields(p) = 1..n /\ n \in Nat
  BY FieldsType DEF IsSequence
<1>2. T # {}
  BY <1>1 DEF ToSet
<1>3. LastRead(p, field) = Max(T)
  BY <1>2 DEF LastRead, SelectLastInSeq
<1>4. Max(T) \in T
  <2>1. T \subseteq 0..n
    OBVIOUS
  <2> HIDE DEF T
  <2> QED BY <1>1, <1>2, <2>1, MaxFound
<1> QED BY <1>1, <1>3, <1>4

------------------------------------------------------------------------------
(* The invariant *)

\* What the archive holds of an object.
Image(p, o) ==
  [id |-> UniqueId(p),
   values |-> [j \in DOMAIN Fields(p) |-> ToWire(p, Fields(p)[j], o[Fields(p)[j]])]]

AInv ==
  /\ TypeOK
  /\ archive # Nothing => sent \in Objects[packet] /\ archive = Image(packet, sent)
  /\ object = [field \in FieldSet(packet) |-> object[field]]
  /\ SerializedFieldsTravel

\* An object the sender may send.
LEMMA ObjectsHave ==
  ASSUME NEW p \in Types, NEW o \in Objects[p]
  PROVE  /\ DOMAIN o = FieldSet(p) /\ o = [field \in FieldSet(p) |-> o[field]]
         /\ \A field \in ToSet(Fields(p)) : FromWire(p, field, ToWire(p, field, o[field])) = o[field]
<1>1. /\ o = [field \in FieldSet(p) |-> o[field]]
      /\ \A field \in FieldSet(p) :
           /\ field \in DateFields => o[field] \in Dates
           /\ field \in DOMAIN PacketEnums(p) => o[field] \in DOMAIN PacketEnums(p)[field]
  BY ObjectsAssumption
<1>2. DOMAIN o = FieldSet(p)
  BY <1>1
<1>3. ToSet(Fields(p)) \subseteq FieldSet(p)
  BY DEF FieldSet
<1>4. \A field \in ToSet(Fields(p)) : FromWire(p, field, ToWire(p, field, o[field])) = o[field]
  BY <1>1, <1>3, FieldsTravel
<1> QED BY <1>1, <1>2, <1>4

\* The fields of what was sent, read from its image.
LEMMA ImageRead ==
  ASSUME NEW p \in Types, NEW o \in Objects[p], NEW field \in ToSet(Fields(p))
  PROVE  /\ LastRead(p, field) \in DOMAIN Image(p, o).values
         /\ FromWire(p, field, Image(p, o).values[LastRead(p, field)]) = o[field]
BY LastReadFound, ObjectsHave DEF Image

LEMMA AInvInit == Init => AInv
<1> SUFFICES ASSUME Init PROVE AInv
  OBVIOUS
<1> QED BY DEF Init, AInv, TypeOK, SerializedFieldsTravel, Fresh, Nothing

LEMMA AInvSave ==
  ASSUME AInv, NEW o \in Objects[packet], Save(o)
  PROVE  AInv'
<1>1. packet \in Types /\ packet' = packet /\ object' = object /\ sent' = o
  BY DEF AInv, TypeOK, Save
<1>2. packet \in PacketNames
  BY <1>1, ObjectsAssumption
<1>3. archive' = Image(packet, o)
  BY DEF Save, Image
<1>4. archive' # Nothing
  BY <1>2, <1>3, TypeFound DEF Image, Nothing
<1>5. Len(archive'.values) = Len(Fields(packet))
  <2>1. DOMAIN Fields(packet) = 1..Len(Fields(packet)) /\ Len(Fields(packet)) \in Nat
    BY FieldsType DEF IsSequence
  <2> QED BY <1>3, <2>1 DEF Image
<1>6. TypeOK'
  BY <1>1, <1>5 DEF AInv, TypeOK
<1>7. SerializedFieldsTravel'
  BY <1>4 DEF SerializedFieldsTravel
<1> QED BY <1>1, <1>3, <1>6, <1>7 DEF AInv

LEMMA AInvLoad ==
  ASSUME AInv, Load
  PROVE  AInv'
<1>1. /\ packet \in Types /\ packet' = packet /\ sent' = sent /\ archive' = Nothing
      /\ sent \in Objects[packet] /\ archive = Image(packet, sent)
      /\ DOMAIN object = FieldSet(packet)
  BY DEF AInv, TypeOK, Load
<1>2. TypeOf(archive.id) = packet
  BY <1>1, ObjectsAssumption, TypeFound DEF Image
<1>3. object' = [field \in FieldSet(packet) |->
                   IF LastRead(packet, field) \in DOMAIN archive.values
                   THEN FromWire(packet, field, archive.values[LastRead(packet, field)])
                   ELSE object[field]]
  BY <1>1, <1>2 DEF Load
<1>4. DOMAIN object' = FieldSet(packet)
  BY <1>3
<1>5. \A field \in ToSet(Fields(packet)) : field \in FieldSet(packet)
  BY DEF FieldSet
<1>6. \A field \in ToSet(Fields(packet)) : object'[field] = sent[field]
  BY <1>1, <1>3, <1>5, ImageRead
<1>7. DOMAIN sent = FieldSet(packet)
  BY <1>1, ObjectsHave
<1>8. SerializedFieldsTravel'
  BY <1>1, <1>4, <1>6, <1>7 DEF SerializedFieldsTravel
<1>9. object' = [field \in FieldSet(packet) |-> object'[field]]
  BY <1>3
<1>10. TypeOK'
  BY <1>1, <1>4 DEF TypeOK
<1> QED BY <1>1, <1>8, <1>9, <1>10 DEF AInv

LEMMA AInvNext == AInv /\ [Next]_vars => AInv'
<1> SUFFICES ASSUME AInv, [Next]_vars PROVE AInv'
  OBVIOUS
<1>1. ASSUME NEW o \in Objects[packet], Save(o) PROVE AInv'
  BY <1>1, AInvSave
<1>2. CASE Load
  BY <1>2, AInvLoad
<1>3. CASE Renew
  BY <1>3 DEF Renew, AInv, TypeOK, SerializedFieldsTravel, Fresh
<1>4. CASE UNCHANGED vars
  BY <1>4 DEF vars, AInv, TypeOK, SerializedFieldsTravel
<1> QED BY <1>1, <1>2, <1>3, <1>4 DEF Next

\* The objects, and the archive between them, are of the type of the packet.
THEOREM ArchiveTyped == Spec => []TypeOK
<1>1. AInv => TypeOK
  BY DEF AInv
<1> QED BY AInvInit, AInvNext, <1>1, PTL DEF Spec

\* What the receiver has read is what was sent, of the same type and field by field,
\* for all packets the repository declares and all objects sent as one of them.
THEOREM FieldsArrive == Spec => []SerializedFieldsTravel
<1>1. AInv => SerializedFieldsTravel
  BY DEF AInv
<1> QED BY AInvInit, AInvNext, <1>1, PTL DEF Spec

\* Where no structure leaves a field out, nothing at all is lost: what breaks
\* EveryFieldTravels is the fields that serialize forgets and nothing else.
THEOREM WholePacketsArrive ==
  ASSUME \A p \in Types : Omitted(p) = {}
  PROVE  Spec => []EveryFieldTravels
<1>1. AInv => EveryFieldTravels
  <2> SUFFICES ASSUME AInv, archive = Nothing PROVE object = sent
    BY DEF EveryFieldTravels
  <2>1. packet \in Types /\ sent \in Objects[packet] \cup {Fresh(packet)}
        /\ object = [field \in FieldSet(packet) |-> object[field]]
    BY DEF AInv, TypeOK
  <2>2. sent = [field \in FieldSet(packet) |-> sent[field]]
    BY <2>1, ObjectsHave DEF Fresh
  <2>3. FieldSet(packet) = ToSet(Fields(packet))
    BY <2>1 DEF FieldSet
  <2>4. \A field \in FieldSet(packet) : object[field] = sent[field]
    BY <2>3 DEF AInv, SerializedFieldsTravel
  <2> QED BY <2>1, <2>2, <2>4
<1> QED BY AInvInit, AInvNext, <1>1, PTL DEF Spec
=============================================================================
