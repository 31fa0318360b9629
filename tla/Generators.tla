----------------------------- MODULE Generators -----------------------------
(***************************************************************************)
(* The two generators of one build, one after the other, and what their    *)
(* outputs have to do with each other and with the program that runs: the  *)
(* bridge copies payloads as they lie in memory, the Python tests go by    *)
(* the generated classes, and a reader goes by the document.               *)
(***************************************************************************)
EXTENDS Bindings, Docs

vars == <<bindings, docs>>

Init == BindingsInit /\ DocsInit

Next == \/ BindingsNext /\ UNCHANGED docs
        \/ BindingsDone /\ DocsNext /\ UNCHANGED bindings

Spec == Init /\ [][Next]_vars

OnWire == Subscribes["UdpBridge"] \cup UdpBridgePublishes

\* The payloads that never leave the process, and the pointer inside one of them.
InternalOnly == { Payload[m] : m \in ToSet(MsgIds) \ OnWire } \cup {"shared_ptr"}

Printed == { classes[i].name : i \in DOMAIN classes }

\* What the code collected for a class writes, if that of the classes it calls writes
\* what they are in memory.
OpBytes(o) ==
    IF o.op = "struct" THEN ChunkBytes(o.fmt) ELSE ObjectBytes(o, Memory[o.type], Given(o))

CodeBytes(code) == FlattenSeq([k \in DOMAIN code |-> OpBytes(code[k])])

BytesOf(frame) == CodeBytes(frame.pack) \o ChunkBytes(frame.fmt)

\* Each call is of a class that has been begun and not printed, and current_offset
\* counts the bytes of the code collected so far; a section in progress describes the
\* classes it has tables of.
TypeOK ==
    /\ \A i \in DOMAIN stack :
           /\ stack[i].type \in visited \ Printed
           /\ stack[i].at \in 1..Len(Structs[stack[i].type]) + 1
           /\ stack[i].type \notin InternalOnly => stack[i].offset = Len(BytesOf(stack[i]))
    /\ Printed \subseteq visited /\ visited \subseteq DOMAIN Structs
    /\ edges \subseteq ToSet(AppServices) \X ToSet(AppServices) \X ToSet(MsgIds)
    /\ tables # <<>> => described \cup {tables[Len(tables)].class} =
           { sections[Len(sections)].tables[k].class : k \in DOMAIN sections[Len(sections)].tables }

\* Python parses the module and runs it from top to bottom: each class is printed once and
\* after the classes and enumerations its fields name, no line assigns to nothing, and in
\* the end every message has a class.
DefinedBeforeUse ==
    /\ \A i \in DOMAIN classes :
           classes[i].hints \subseteq GeneratedEnums \cup { classes[j].name : j \in 1..(i - 1) }
    /\ Cardinality(Printed) = Len(classes) /\ \A i \in DOMAIN classes : Parses(classes[i])
    /\ BindingsDone => \A m \in DOMAIN MessageById : MessageById[m] \in Printed

\* What pack_wire writes of an object whose lists are filled up is, byte for byte, the
\* object as C++ has it in memory, padding included, so that a payload has the size for
\* which the bridge accepts it.
PacksMemory ==
    LET written == Packed
    IN  \A c \in Printed \ InternalOnly : c \in DOMAIN written /\ written[c] = Memory[c]

\* unpack_wire finds every value of a datagram, which is a copy of memory, where C++ put it.
UnpacksMemory ==
    LET read == Unpacked
    IN  \A c \in Printed \ InternalOnly : c \in DOMAIN read /\ read[c] = Memory[c]

\* What the handlers of a service publish, by the paths through their code.
Sends(s) == UNION { PublishedBy(h) : h \in {x \in SilHandler : x[1] = s} } \cap BusMessages

\* The finished diagram shows what crosses the bridge and what stays inside: a message the
\* bridge injects has an edge to each service that takes it, one it forwards an edge from
\* each that sends it, both their name on the harness's side, and a message that never
\* crosses goes exactly from those that send it to those that take it.  Of a message that
\* crosses it asks for no edge between services.
TrafficDrawn ==
    undrawn = <<>> =>
        \A m \in BusMessages :
            LET senders == { s \in Internal : m \in Sends(s) }
                between == { <<e[1], e[2]>> : e \in { x \in edges : x[3] = m } }
            IN  /\ Authorized(m) =>
                     /\ {"UdpBridge"} \X SubscribersOf(m) \subseteq between
                     /\ m \in inbound
                /\ PySubscribes(m) => senders \X {"UdpBridge"} \subseteq between /\ m \in outbound
                /\ m \notin OnWire => between = senders \X SubscribersOf(m)

\* The classes of the fields of a class.
Uses(c) == UNION { ClassesOf(FieldsOf(c)[i]) : i \in DOMAIN FieldsOf(c) }

\* The classes a reader needs to know the layout of a payload; none is nested deeper.
WithUses(cs) == cs \cup UNION { Uses(c) : c \in cs }

Needed(cs) == WithUses(WithUses(WithUses(WithUses(cs))))

\* A section stands alone: it has one table for its payload and for each class in it.
SectionsStandAlone ==
    \A i \in DOMAIN sections : (i < Len(sections) \/ tables = <<>>) =>
        LET shown == [k \in DOMAIN sections[i].tables |-> sections[i].tables[k].class]
        IN  /\ ToSet(shown) = Needed({Struct(Payload[sections[i].id])})
            /\ Cardinality(ToSet(shown)) = Len(shown)

\* The document and the bindings agree: the bytes a table gives for a field are the
\* bytes at which the Python class of the payload writes that field, and no others.
DocumentedWhereWritten ==
    BindingsDone /\ sections # <<>> =>
        LET section == sections[Len(sections)]
            table == section.tables[1]
            written == Packed[Payload[section.id]]
            bytesOf(name) == { k \in DOMAIN written : written[k] # Pad /\ written[k][1][1] = name }
        IN  section.id \in OnWire =>
                /\ table.size = Len(written)
                /\ \A i \in DOMAIN table.rows :
                       bytesOf(table.rows[i].name) \subseteq
                           (table.rows[i].offset + 1)..(table.rows[i].offset + table.rows[i].bytes)
                /\ \A k \in DOMAIN written : written[k] # Pad =>
                       \E i \in DOMAIN table.rows : k \in bytesOf(table.rows[i].name)
-----------------------------------------------------------------------------
(***************************************************************************)
(* What the messages and the declarations of the services must be like for *)
(* the generators to do their work.                                        *)
(***************************************************************************)
\* How many rounds of Layouts leave a struct without a layout.
Depth(t) == Cardinality({ d \in 0..3 : t \notin DOMAIN Layouts[d] })

\* Structs are nested, but none is part of itself, and all that occur are declared.
WellNested ==
    /\ MsgIds \in Seq(DOMAIN Payload) /\ Roots \in Seq(DOMAIN Structs)
    /\ DOMAIN Enums \subseteq GeneratedEnums
    /\ \A t \in DOMAIN Structs :
           /\ Structs[t] \in Seq(ToSet(Structs[t]))
           /\ \A f \in ToSet(Structs[t]) : IsClass(f.type) => Depth(f.type) < Depth(t)

\* Each value has a format character of its size and kind, an array is one of bytes or of
\* objects, and what is on the wire has nothing in it that is not.
Encodable(f) ==
    IF RawBytes(f) THEN f.type \in DOMAIN Scalars /\ Scalars[f.type] = <<1, "signed">>
    ELSE IF IsClass(f.type) THEN f.type \notin InternalOnly
    ELSE LET char == FormatChar(f.type)
         IN  /\ f.as = "one" /\ char \notin {"x", "s"}
             /\ CharSize[char] = SizeOf(f.type) /\ CharKind[char] = Scalars[f.type][2]

\* Where field i of t begins and ends; up to where there is padding before field i, or at
\* the end of the struct.
Begin(t, i) == Layout[t].offset[i]

End(t, i) == Begin(t, i) + FieldSize(Structs[t][i])

Until(t, i) == IF i \in DOMAIN Structs[t] THEN Begin(t, i) ELSE SizeOf(t)

\* A field goes into the format, and is not packed by code of its own.
InFormat(f) == RawBytes(f) \/ (f.as = "one" /\ ~IsClass(f.type))

\* Padding never makes up a format alone: the field before it or after it is in the same.
PaddingShared(t) ==
    \A i \in 1..(Len(Structs[t]) + 1) :
        (IF i = 1 THEN 0 ELSE End(t, i - 1)) < Until(t, i) =>
            \/ i # 1 /\ InFormat(Structs[t][i - 1])
            \/ i \in DOMAIN Structs[t] /\ InFormat(Structs[t][i])

\* Every struct has a layout, the names of its fields are distinct, padding stands beside a
\* field, and every payload on the wire can be formatted.
Formattable ==
    /\ \A t \in DOMAIN Scalars : ~IsClass(t) /\ Scalars[t][1] \in Nat \ {0}
    /\ \A t \in DOMAIN Structs :
           /\ t \in DOMAIN Layout
           /\ IF t = "shared_ptr" THEN Structs[t] = <<>> ELSE Structs[t] # <<>> /\ PaddingShared(t)
           /\ \A i, j \in DOMAIN Structs[t] : Structs[t][i].name = Structs[t][j].name => i = j
           /\ \A f \in ToSet(Structs[t]) :
                  f.n \in Nat /\ (f.as = "one" => f.n = 1) /\ (t \notin InternalOnly => Encodable(f))
    /\ \A m \in ToSet(MsgIds) \cap OnWire : Payload[m] \notin InternalOnly

\* Four rounds find all that a payload needs, and a payload is no part of itself.
SelfContained ==
    \A m \in ToSet(MsgIds) :
        LET payload == Struct(Payload[m])
        IN  \A c \in Needed({payload}) :
                /\ Uses(c) \subseteq Needed({payload}) /\ payload \notin Uses(c)
                /\ FieldsOf(c) \in Seq(ToSet(FieldsOf(c)))

\* A service declares what its handlers publish, and the bridge what it lets in; the
\* bridge lets in only what a service takes, and forwards only what one publishes.
DeclaredAsSent ==
    /\ BusMessages \subseteq ToSet(MsgIds) /\ "UdpBridge" \in ToSet(AppServices)
    /\ \A s \in Internal : Sends(s) = Publishes[s] \cap BusMessages
    /\ \A m \in BusMessages : Authorized(m) <=> PyPublishes(m)
    /\ \A m \in BusMessages : PyPublishes(m) => CxxSubscribes(m)
    /\ \A m \in BusMessages : PySubscribes(m) => CxxPublishes(m)
=============================================================================
