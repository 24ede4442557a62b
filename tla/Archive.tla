-------------------------------- MODULE Archive --------------------------------
(* A packet on its way: the sender serialises it to an archive under the two     *)
(* numbers of its type; the receiver finds the type by these numbers and reads   *)
(* the archive into an object of that type, a new one or one that has held an    *)
(* earlier packet. boost::serialization is external: an archive is the sequence  *)
(* of what serialize wrote to it.                                                *)
(*                                                                              *)
(* A definition named Bug... is not the code: it is the definition after it      *)
(* with a plausible mistake, which a property below must catch.                  *)
EXTENDS PacketTypes

CONSTANTS Types,     \* the packet types sent in this run
          Objects,   \* the objects the sender may send as a packet of each type
          Junk       \* what memory holds that no constructor has initialised

\* An object has the fields of its type, in those of MQL_DateTime a date, in those
\* of an enumeration one of its enumerators.
ASSUME ObjectsAssumption ==
  /\ Types \subseteq PacketNames
  /\ \A p \in Types : \A o \in Objects[p] :
       /\ o = [field \in FieldSet(p) |-> o[field]]
       /\ \A field \in FieldSet(p) :
            /\ field \in DateFields => o[field] \in Dates
            /\ field \in DOMAIN PacketEnums(p) => o[field] \in DOMAIN PacketEnums(p)[field]

VARIABLES
  packet,    \* the type of the packets sent
  sent,      \* the object the sender serialised last
  archive,   \* the archive on its way
  object     \* the receiver's object

vars == <<packet, sent, archive, object>>

Nothing == [id |-> <<>>, values |-> <<>>]

\* an object whose fields no constructor has initialised
Fresh(p) == [field \in FieldSet(p) |-> Junk]

TypeOK ==
  /\ packet \in Types
  /\ sent \in Objects[packet] \cup {Fresh(packet)}
  /\ archive = Nothing \/ Len(archive.values) = Len(Fields(packet))
  /\ DOMAIN object = FieldSet(packet)

Init ==
  /\ packet \in Types
  /\ sent = Fresh(packet) /\ object = Fresh(packet)
  /\ archive = Nothing

ToWire(p, field, value) ==
  IF field \in DateFields THEN DateToWire(value)
  ELSE IF field \in DOMAIN PacketEnums(p) THEN EnumToWire(PacketEnums(p)[field], value)
  ELSE value

FromWire(p, field, value) ==
  IF field \in DateFields THEN DateFromWire(value)
  ELSE IF field \in DOMAIN PacketEnums(p) THEN EnumFromWire(PacketEnums(p)[field], value)
  ELSE value

\* the last field is forgotten
BugSave(o) ==
  /\ archive = Nothing
  /\ sent' = o
  /\ archive' = [id |-> UniqueId(packet), values |-> [i \in 1..(Len(Fields(packet)) - 1) |->
       LET field == Fields(packet)[i] IN ToWire(packet, field, sent'[field])]]
  /\ UNCHANGED <<packet, object>>

\* serialize with a saving archive
Save(o) ==
  /\ archive = Nothing
  /\ sent' = o
  /\ archive' = [id |-> UniqueId(packet), values |-> [i \in DOMAIN Fields(packet) |->
       LET field == Fields(packet)[i] IN ToWire(packet, field, sent'[field])]]
  /\ UNCHANGED <<packet, object>>

\* the type registered under the two numbers
TypeOf(id) == CHOOSE p \in PacketNames : UniqueId(p) = id

\* serialize with a loading archive: the last read of a field is the one that stays
LastRead(p, field) == SelectLastInSeq(Fields(p), LAMBDA f : f = field)

Load ==
  /\ archive # Nothing
  /\ LET p == TypeOf(archive.id)
         held == IF DOMAIN object = FieldSet(p) THEN object ELSE Fresh(p)
     IN  object' = [field \in FieldSet(p) |->
           IF LastRead(p, field) \in DOMAIN archive.values
           THEN FromWire(p, field, archive.values[LastRead(p, field)])
           ELSE held[field]]
  /\ archive' = Nothing
  /\ UNCHANGED <<packet, sent>>

\* The next packet is read into an object of its own: the response packets derive
\* from the structures, and nothing initialises their fields.
Renew ==
  /\ archive = Nothing /\ object # Fresh(packet)
  /\ object' = Fresh(packet) /\ sent' = Fresh(packet)
  /\ UNCHANGED <<packet, archive>>

Next == (\E o \in Objects[packet] : Save(o)) \/ Load \/ Renew

Spec == Init /\ [][Next]_vars

------------------------------------------------------------------------------
\* What the receiver has read is what was sent, as a packet of the same type and
\* field by field: no two types share their numbers, no two enumerators their code,
\* no date before 1970 or at the end of the range is changed, and no value of the
\* object before shows through. Where a structure leaves fields out, the others do.
SerializedFieldsTravel ==
  archive = Nothing => /\ DOMAIN object = DOMAIN sent
                       /\ \A field \in ToSet(Fields(packet)) : object[field] = sent[field]

\* "Order filling type", "Order lifetime", "The reason or source for placing an order"
\* (trade-info:25-32): nothing a structure declares and documents is left out.
EveryFieldTravels == archive = Nothing => object = sent
=============================================================================
