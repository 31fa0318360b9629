------------------------------ MODULE Bindings ------------------------------
(***************************************************************************)
(* generate_bindings: the program that prints the Python module with which *)
(* the tests pack and unpack datagrams.  generate_struct calls itself for  *)
(* the classes its fields use, prints the class, and goes through the      *)
(* fields once more to collect the code of pack_wire and unpack_wire.      *)
(*                                                                         *)
(* The text it prints is kept as what it says: a chunk of a struct format, *)
(* a loop over an array of objects, or a call for one object.              *)
(***************************************************************************)
EXTENDS Messages

VARIABLES
    todo,     \* the roots main has still to generate
    stack,    \* the calls of generate_struct, innermost first
    visited,  \* the names it has begun
    classes   \* the classes printed, in order

bindings == <<todo, stack, visited, classes>>

\* main: the four enumerations, one helper, then the payload of every id.
GeneratedEnums == {"MsgId", "Severity", "SystemState", "DriveMode"}

Roots == <<"MotorSubCmd">> \o [i \in DOMAIN MsgIds |-> Payload[MsgIds[i]]]

BindingsInit == todo = Roots /\ stack = <<>> /\ visited = {} /\ classes = <<>>

\* A call of generate_struct: which pass it is in and at which field, the
\* format not yet flushed, the code so far and current_offset.
Call(t) == [type |-> t, pass |-> "nested", at |-> 1, hints |-> <<>>, fmt |-> <<>>,
            pack |-> <<>>, unpack |-> <<>>, offset |-> 0]

Top == Head(stack)

Fields == Structs[Top.type]

Field == Fields[Top.at]

Becomes(frame) == stack' = <<frame>> \o Tail(stack)

\* Generates t unless its name is known.
Enters(t, rest) ==
    IF t \in visited
    THEN stack' = rest /\ UNCHANGED visited
    ELSE stack' = <<Call(t)>> \o rest /\ visited' = visited \cup {t}

NextRoot ==
    /\ stack = <<>> /\ todo # <<>>
    /\ todo' = Tail(todo)
    /\ Enters(Head(todo), <<>>)
    /\ UNCHANGED classes

\* Mutant: the elements of arrays are not generated.
Nested_NoElements ==
    /\ stack # <<>> /\ Top.pass = "nested" /\ Top.at <= Len(Fields)
    /\ LET rest == <<[Top EXCEPT !.at = @ + 1]>> \o Tail(stack)
       IN  IF IsClass(Field.type) /\ Field.as = "one"
           THEN Enters(Field.type, rest)
           ELSE stack' = rest /\ UNCHANGED visited
    /\ UNCHANGED <<todo, classes>>

\* First pass: the class of the field, or of the elements of the array.
Nested ==
    /\ stack # <<>> /\ Top.pass = "nested" /\ Top.at <= Len(Fields)
    /\ LET rest == <<[Top EXCEPT !.at = @ + 1]>> \o Tail(stack)
       IN  IF IsClass(Field.type)
           THEN Enters(Field.type, rest)
           ELSE stack' = rest /\ UNCHANGED visited
    /\ UNCHANGED <<todo, classes>>

ClassBegins ==
    /\ stack # <<>> /\ Top.pass = "nested" /\ Top.at > Len(Fields)
    /\ Becomes([Top EXCEPT !.pass = "body", !.at = 1])
    /\ UNCHANGED <<todo, visited, classes>>

-----------------------------------------------------------------------------
(***************************************************************************)
(* Second pass.                                                            *)
(***************************************************************************)
\* get_struct_format_char
FormatChar(t) ==
    IF t = "bool" THEN "?"
    ELSE IF t \in DOMAIN Enums
    THEN CASE SizeOf(t) = 1 -> "B" [] SizeOf(t) = 2 -> "H" [] SizeOf(t) = 8 -> "Q" [] OTHER -> "?"
    ELSE LET signed == Scalars[t][2] = "signed"
         IN  IF Scalars[t][2] = "float"
             THEN CASE SizeOf(t) = 4 -> "f" [] SizeOf(t) = 8 -> "d" [] OTHER -> "?"
             ELSE CASE SizeOf(t) = 1 -> (IF signed THEN "b" ELSE "B")
                    [] SizeOf(t) = 2 -> (IF signed THEN "h" ELSE "H")
                    [] SizeOf(t) = 4 -> (IF signed THEN "i" ELSE "I")
                    [] SizeOf(t) = 8 -> (IF signed THEN "q" ELSE "Q")
                    [] OTHER -> "?"

\* An element of a format: n padding bytes, n raw bytes, or one value.
Item(char, n, name) == [char |-> char, n |-> n, name |-> name]

\* The format with padding up to offset to.
Padded(frame, to) ==
    IF to > frame.offset
    THEN [frame EXCEPT !.fmt = Append(@, Item("x", to - frame.offset, "")), !.offset = to]
    ELSE frame

\* Mutant: the flushed format is not cleared.
Flushed_Kept(frame) ==
    IF frame.fmt = <<>> THEN frame
    ELSE [frame EXCEPT !.pack = Append(@, [op |-> "struct", fmt |-> frame.fmt]),
                       !.unpack = Append(@, [op |-> "struct", fmt |-> frame.fmt])]

\* unpack_args: the fields that a format is read into.  Padding has none.
UnpackArgs(fmt) == { fmt[i].name : i \in { j \in DOMAIN fmt : fmt[j].char # "x" } }

\* flush_format: the line of pack_wire packs the fields of the format, that of unpack_wire
\* assigns to them.
Flushed(frame) ==
    IF frame.fmt = <<>> THEN frame
    ELSE [frame EXCEPT !.pack = Append(@, [op |-> "struct", fmt |-> frame.fmt]),
                       !.unpack = Append(@, [op |-> "struct", fmt |-> frame.fmt]),
                       !.fmt = <<>>]

RawBytes(f) == f.as # "one" /\ f.type \in {"uint8_t", "char", "int8_t"}

\* What the generated class declares for a field: only the names of classes and
\* enumerations matter.
Hint(f) == IF IsClass(f.type) \/ f.type \in DOMAIN Enums THEN {f.type} ELSE {}

Object(f) == [op |-> "object", name |-> f.name, n |-> f.n, type |-> f.type, as |-> f.as]

\* What a field adds to the code: a primitive and an array of bytes go into the
\* pending format, an object or an array of objects is packed by its own code.
FieldCode(frame, f) ==
    LET next == [frame EXCEPT !.offset = @ + FieldSize(f), !.at = @ + 1,
                              !.hints = Append(@, Hint(f))]
    IN  IF RawBytes(f) THEN [next EXCEPT !.fmt = Append(@, Item("s", f.n, f.name))]
        ELSE IF f.as = "one" /\ ~IsClass(f.type)
        THEN [next EXCEPT !.fmt = Append(@, Item(FormatChar(f.type), 1, f.name))]
        ELSE LET out == Flushed(next)
             IN  [out EXCEPT !.pack = Append(@, Object(f)), !.unpack = Append(@, Object(f))]

\* Mutant: no padding before a field.
BodyField_Packed ==
    /\ stack # <<>> /\ Top.pass = "body" /\ Top.at <= Len(Fields)
    /\ Becomes(FieldCode(Top, Field))
    /\ UNCHANGED <<todo, visited, classes>>

BodyField ==
    /\ stack # <<>> /\ Top.pass = "body" /\ Top.at <= Len(Fields)
    /\ Becomes(FieldCode(Padded(Top, Layout[Top.type].offset[Top.at]), Field))
    /\ UNCHANGED <<todo, visited, classes>>

\* Mutant: no padding at the end.
ClassEnds_Short ==
    /\ stack # <<>> /\ Top.pass = "body" /\ Top.at > Len(Fields)
    /\ LET done == Flushed(Top)
       IN  classes' = Append(classes, [name |-> Top.type, wire_size |-> SizeOf(Top.type),
                                       hints |-> UNION { done.hints[i] : i \in DOMAIN done.hints },
                                       pack |-> done.pack, unpack |-> done.unpack])
    /\ stack' = Tail(stack)
    /\ UNCHANGED <<todo, visited>>

\* The trailing padding, the last flush, and the class is printed.  A struct
\* without fields gets neither.
ClassEnds ==
    /\ stack # <<>> /\ Top.pass = "body" /\ Top.at > Len(Fields)
    /\ LET done == IF Fields = <<>> THEN Top ELSE Flushed(Padded(Top, SizeOf(Top.type)))
       IN  classes' = Append(classes, [name |-> Top.type, wire_size |-> SizeOf(Top.type),
                                       hints |-> UNION { done.hints[i] : i \in DOMAIN done.hints },
                                       pack |-> done.pack, unpack |-> done.unpack])
    /\ stack' = Tail(stack)
    /\ UNCHANGED <<todo, visited>>

BindingsNext == NextRoot \/ Nested \/ ClassBegins \/ BodyField \/ ClassEnds

BindingsDone == todo = <<>> /\ stack = <<>>

\* MESSAGE_BY_ID and PAYLOAD_SIZE_BY_ID, printed at the end.
MessageById == [id \in ToSet(MsgIds) |-> Payload[id]]
PayloadSizeById == [id \in ToSet(MsgIds) |-> SizeOf(Payload[id])]

-----------------------------------------------------------------------------
(***************************************************************************)
(* What the printed Python does.  The module struct, with "<", takes sizes *)
(* from the characters alone and adds no padding of its own.               *)
(***************************************************************************)
CharSize == "?" :> 1 @@ "b" :> 1 @@ "B" :> 1 @@ "h" :> 2 @@ "H" :> 2 @@ "i" :> 4 @@ "I" :> 4 @@
            "q" :> 8 @@ "Q" :> 8 @@ "f" :> 4 @@ "d" :> 8

CharKind == "?" :> "bool" @@ "b" :> "signed" @@ "h" :> "signed" @@ "i" :> "signed" @@
            "q" :> "signed" @@ "B" :> "unsigned" @@ "H" :> "unsigned" @@ "I" :> "unsigned" @@
            "Q" :> "unsigned" @@ "f" :> "float" @@ "d" :> "float"

\* Each byte of a bytes object stands for a char.
ItemBytes(item) ==
    CASE item.char = "x" -> [k \in 1..item.n |-> Pad]
      [] item.char = "s" -> [k \in 1..item.n |-> <<<<item.name, k>>, "signed", 1>>]
      [] OTHER -> ScalarBytes(<<item.name>>, CharKind[item.char], CharSize[item.char])

ChunkBytes(fmt) == FlattenSeq([i \in DOMAIN fmt |-> ItemBytes(fmt[i])])

\* The loop over an array of objects, for n of them.
ObjectBytes(op, image, n) ==
    IF op.as = "one" THEN Within(op.name, image) ELSE Repeated(op.name, image, n)

\* pack_wire goes through the list it is given, unpack_wire reads as many as the array has.
\* The callers, which are the tests, fill their lists up to that.
Given(op) == op.n

\* An assignment to nothing is no Python: it takes the module with it.
Parses(c) == \A k \in DOMAIN c.unpack : c.unpack[k].op = "struct" => UnpackArgs(c.unpack[k].fmt) # {}

ClassOf(name) == CHOOSE c \in ToSet(classes) : c.name = name

\* An object is read from a slice of WIRE_SIZE bytes.
Slice(image, size) == [k \in 1..size |-> IF k \in DOMAIN image THEN image[k] ELSE Pad]

\* The images of the printed classes: what pack_wire writes, and from which bytes
\* unpack_wire reads.  As in Memory, a class comes after those it calls.
PackStep(known) ==
    LET image(c) ==
            LET op(o) == IF o.op = "struct" THEN ChunkBytes(o.fmt) ELSE ObjectBytes(o, known[o.type], Given(o))
            IN  FlattenSeq([k \in DOMAIN c.pack |-> op(c.pack[k])])
        ready(c) == \A k \in DOMAIN c.pack : c.pack[k].op = "struct" \/ c.pack[k].type \in DOMAIN known
        found == { c.name : c \in { x \in ToSet(classes) : ready(x) } }
    IN  [t \in found \cup DOMAIN known |-> IF t \in found THEN image(ClassOf(t)) ELSE known[t]]

UnpackStep(known) ==
    LET image(c) ==
            LET op(o) == IF o.op = "struct" THEN ChunkBytes(o.fmt)
                         ELSE ObjectBytes(o, Slice(known[o.type], ClassOf(o.type).wire_size), o.n)
            IN  FlattenSeq([k \in DOMAIN c.unpack |-> op(c.unpack[k])])
        ready(c) == \A k \in DOMAIN c.unpack : c.unpack[k].op = "struct" \/ c.unpack[k].type \in DOMAIN known
        found == { c.name : c \in { x \in ToSet(classes) : Parses(x) /\ ready(x) } }
    IN  [t \in found \cup DOMAIN known |-> IF t \in found THEN image(ClassOf(t)) ELSE known[t]]

Packed == PackStep(PackStep(PackStep(<<>>)))

Unpacked == UnpackStep(UnpackStep(UnpackStep(<<>>)))
=============================================================================
