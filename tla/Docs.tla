-------------------------------- MODULE Docs --------------------------------
(***************************************************************************)
(* generate_docs: the program that draws who sends what to whom and        *)
(* documents every payload.  It goes through the ids twice: for the edges  *)
(* of the diagram, and for a section with the direction, the publishers    *)
(* and subscribers, and a table for the payload and every class in it.     *)
(***************************************************************************)
EXTENDS Messages, SilTopology

VARIABLES
    undrawn,    \* the ids whose edges have not been collected
    edges,      \* the edges of the diagram, each with a message
    inbound,    \* the names on the edge from the test harness
    outbound,   \* the names on the edge to it
    unwritten,  \* the ids that have no section yet
    tables,     \* the tables in progress, innermost first: the class, and its next field
    described,  \* the sub-structs the section in progress describes
    sections    \* the sections written

docs == <<undrawn, edges, inbound, outbound, unwritten, tables, described, sections>>

MotorPublishes == {"MotorStatus"}
KinematicsPublishes == {"KinematicsData"}
PowerPublishes == {"PowerData"}
StatePublishes == {"StateData", "PhysicsTick"}
ThermalPublishes == {"ThermalData"}
EnvironmentPublishes == {"EnvironmentAck", "EnvironmentRequest", "InternalEnvData"}
AutonomousPublishes == {"MotorSequence", "AutoDriveStatus", "KinematicsRequest", "PowerRequest",
                        "InternalEnvRequest"}
LogPublishes == {"Log"}

Publishes ==
    "Motor" :> MotorPublishes @@ "Kinematics" :> KinematicsPublishes @@
    "Power" :> PowerPublishes @@ "State" :> StatePublishes @@ "Thermal" :> ThermalPublishes @@
    "Environment" :> EnvironmentPublishes @@ "Autonomous" :> AutonomousPublishes @@
    "Log" :> LogPublishes @@ "UdpBridge" :> UdpBridgePublishes

\* component_subscribes and component_publishes, of any service but the bridge.
Internal == ToSet(AppServices) \ {"UdpBridge"}
SubscribersOf(m) == { s \in Internal : m \in Subscribes[s] }
PublishersOf(m) == { s \in Internal : m \in Publishes[s] }

CxxSubscribes(m) == SubscribersOf(m) # {}
CxxPublishes(m) == PublishersOf(m) # {}
PySubscribes(m) == m \in Subscribes["UdpBridge"]
PyPublishes(m) == m \in Publishes["UdpBridge"]

IsInbound(m) == PyPublishes(m) /\ CxxSubscribes(m) /\ ~PySubscribes(m) /\ ~CxxPublishes(m)
IsOutbound(m) == CxxPublishes(m) /\ PySubscribes(m) /\ ~CxxSubscribes(m) /\ ~PyPublishes(m)

Direction(m) ==
    IF IsInbound(m) THEN "Inbound"
    ELSE IF IsOutbound(m) THEN "Outbound"
    ELSE IF (PyPublishes(m) \/ PySubscribes(m)) /\ (CxxPublishes(m) \/ CxxSubscribes(m))
    THEN "Bidirectional"
    ELSE "Internal"

-----------------------------------------------------------------------------
(***************************************************************************)
(* The diagram.                                                            *)
(***************************************************************************)
DocsInit ==
    /\ undrawn = MsgIds /\ unwritten = MsgIds
    /\ edges = {} /\ inbound = {} /\ outbound = {}
    /\ tables = <<>> /\ described = {} /\ sections = <<>>

InboundEdges(m) == { <<"UdpBridge", s, m>> : s \in SubscribersOf(m) }
OutboundEdges(m) == { <<p, "UdpBridge", m>> : p \in PublishersOf(m) }
InternalEdges(m) == { <<p, s, m>> : p \in PublishersOf(m), s \in SubscribersOf(m) }

Id == Head(undrawn)

Draws(new) == edges' = edges \cup new

\* Mutant: a message that goes both ways is drawn on its way in only.
CollectMsgEdges_OneWay ==
    /\ undrawn # <<>>
    /\ CASE Direction(Id) \in {"Inbound", "Bidirectional"} ->
              Draws(InboundEdges(Id)) /\ inbound' = inbound \cup {Id} /\ UNCHANGED outbound
         [] Direction(Id) = "Outbound" ->
              Draws(OutboundEdges(Id)) /\ outbound' = outbound \cup {Id} /\ UNCHANGED inbound
         [] OTHER -> Draws(InternalEdges(Id)) /\ UNCHANGED <<inbound, outbound>>
    /\ undrawn' = Tail(undrawn)
    /\ UNCHANGED <<unwritten, tables, described, sections>>

\* collect_msg_edges
CollectMsgEdges ==
    /\ undrawn # <<>>
    /\ CASE Direction(Id) = "Inbound" ->
              Draws(InboundEdges(Id)) /\ inbound' = inbound \cup {Id} /\ UNCHANGED outbound
         [] Direction(Id) = "Outbound" ->
              Draws(OutboundEdges(Id)) /\ outbound' = outbound \cup {Id} /\ UNCHANGED inbound
         [] Direction(Id) = "Bidirectional" ->
              /\ Draws(InboundEdges(Id) \cup OutboundEdges(Id))
              /\ inbound' = inbound \cup {Id}
              /\ outbound' = outbound \cup {Id}
         [] OTHER -> Draws(InternalEdges(Id)) /\ UNCHANGED <<inbound, outbound>>
    /\ undrawn' = Tail(undrawn)
    /\ UNCHANGED <<unwritten, tables, described, sections>>
-----------------------------------------------------------------------------
(***************************************************************************)
(* The sections.                                                           *)
(***************************************************************************)
\* The classes that get a table: structs, and the arrays, which are classes to
\* the compiler, with the elements as their only member.
Struct(t) == <<"struct", t, 1>>
Array(f) == <<"array", f.type, f.n>>

FieldsOf(c) == IF c[1] = "array" THEN <<CArray("_M_elems", c[2], c[3])>> ELSE Structs[c[2]]

SizeOfClass(c) == c[3] * SizeOf(c[2])

ClassesOf(f) ==
    IF f.as = "std_array" THEN {Array(f)} ELSE IF IsClass(f.type) THEN {Struct(f.type)} ELSE {}

\* Mutant: each field right behind the one before.
OffsetIn_Packed(c, i) ==
    IF c[1] = "array" \/ i = 1 THEN 0
    ELSE Layout[c[2]].offset[i - 1] + FieldSize(FieldsOf(c)[i - 1])

\* offset_of
OffsetIn(c, i) == IF c[1] = "array" THEN 0 ELSE Layout[c[2]].offset[i]

\* emit_field_table: a row for every field.
Table(c) ==
    [class |-> c, size |-> SizeOfClass(c),
     rows |-> [i \in DOMAIN FieldsOf(c) |->
                  [name |-> FieldsOf(c)[i].name, bytes |-> FieldSize(FieldsOf(c)[i]),
                   offset |-> OffsetIn(c, i)]]]

Section(m) ==
    [id |-> m, direction |-> Direction(m), publishers |-> PublishersOf(m),
     subscribers |-> SubscribersOf(m), tables |-> <<Table(Struct(Payload[m]))>>]

\* Mutant: what one section describes, the next does not.
BeginSection_Remembers ==
    /\ undrawn = <<>> /\ tables = <<>> /\ unwritten # <<>>
    /\ tables' = <<[class |-> Struct(Payload[Head(unwritten)]), at |-> 1]>>
    /\ sections' = Append(sections, Section(Head(unwritten)))
    /\ unwritten' = Tail(unwritten)
    /\ UNCHANGED <<undrawn, edges, inbound, outbound, described>>

\* emit_md_payload_section
BeginSection ==
    /\ undrawn = <<>> /\ tables = <<>> /\ unwritten # <<>>
    /\ described' = {}
    /\ tables' = <<[class |-> Struct(Payload[Head(unwritten)]), at |-> 1]>>
    /\ sections' = Append(sections, Section(Head(unwritten)))
    /\ unwritten' = Tail(unwritten)
    /\ UNCHANGED <<undrawn, edges, inbound, outbound>>

InTable == Head(tables)

\* emit_md_struct_section, for the class of the next field unless it has one.
Describe ==
    /\ tables # <<>> /\ InTable.at <= Len(FieldsOf(InTable.class))
    /\ LET new == ClassesOf(FieldsOf(InTable.class)[InTable.at]) \ described
           rest == <<[InTable EXCEPT !.at = @ + 1]>> \o Tail(tables)
       IN  /\ described' = described \cup new
           /\ IF new = {}
              THEN tables' = rest /\ UNCHANGED sections
              ELSE LET c == CHOOSE x \in new : TRUE
                   IN  /\ tables' = <<[class |-> c, at |-> 1]>> \o rest
                       /\ sections' = [sections EXCEPT ![Len(sections)].tables = Append(@, Table(c))]
    /\ UNCHANGED <<undrawn, edges, inbound, outbound, unwritten>>

TableEnds ==
    /\ tables # <<>> /\ InTable.at > Len(FieldsOf(InTable.class))
    /\ tables' = Tail(tables)
    /\ UNCHANGED <<undrawn, edges, inbound, outbound, unwritten, described, sections>>

DocsNext == CollectMsgEdges \/ BeginSection \/ Describe \/ TableEnds

DocsDone == undrawn = <<>> /\ unwritten = <<>> /\ tables = <<>>
=============================================================================
