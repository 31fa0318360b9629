------------------------------ MODULE Messages ------------------------------
(***************************************************************************)
(* The messages: the payload of each id, the fields of each struct in the  *)
(* order of declaration, and where the compiler puts them in memory.  The  *)
(* memory image of a payload is what the bridge copies into a datagram.    *)
(***************************************************************************)
EXTENDS Naturals, Sequences, FiniteSets, SequencesExt, TLC

\* A field: one value, a std::array of n, or a C array of n.
One(name, type) == [name |-> name, type |-> type, as |-> "one", n |-> 1]
StdArray(name, type, n) == [name |-> name, type |-> type, as |-> "std_array", n |-> n]
CArray(name, type, n) == [name |-> name, type |-> type, as |-> "c_array", n |-> n]

\* Size and kind of the fundamental types that occur (x86-64).
Fundamental ==
    "bool" :> <<1, "bool">> @@ "char" :> <<1, "signed">> @@ "uint8_t" :> <<1, "unsigned">> @@
    "uint16_t" :> <<2, "unsigned">> @@ "int16_t" :> <<2, "signed">> @@
    "uint32_t" :> <<4, "unsigned">> @@ "float" :> <<4, "float">>

\* The enumerations, with their underlying types.
Enums == "MsgId" :> "uint16_t" @@ "Severity" :> "uint8_t" @@ "SystemState" :> "uint8_t" @@
         "DriveMode" :> "uint8_t"

Scalars == Fundamental @@ [e \in DOMAIN Enums |-> Fundamental[Enums[e]]]

CoreStructs ==
    "LogPayload" :> <<CArray("text", "char", 255), One("severity", "Severity"),
                      CArray("component", "char", 32)>> @@
    "StateRequestPayload" :> <<One("reserved", "uint8_t")>> @@
    "StatePayload" :> <<One("state", "SystemState")>> @@
    "PhysicsTickPayload" :> <<One("cmd_id", "uint32_t"), One("speed_rpm", "int16_t"),
                              One("dt_us", "uint32_t")>>

SimulationStructs ==
    "MotorSubCmd" :> <<One("speed_rpm", "int16_t"), One("duration_us", "uint32_t")>> @@
    "MotorSequencePayload" :> <<One("cmd_id", "uint32_t"), One("num_steps", "uint8_t"),
                                StdArray("steps", "MotorSubCmd", 5)>> @@
    "KinematicsRequestPayload" :> <<One("reserved", "uint8_t")>> @@
    "KinematicsPayload" :> <<One("cmd_id", "uint32_t"), One("elapsed_us", "uint32_t"),
                             One("position_m", "float"), One("speed_mps", "float")>> @@
    "PowerRequestPayload" :> <<One("reserved", "uint8_t")>> @@
    "PowerPayload" :> <<One("cmd_id", "uint32_t"), One("voltage_v", "float"),
                        One("current_a", "float"), One("state_of_charge", "uint8_t")>> @@
    "ThermalRequestPayload" :> <<One("reserved", "uint8_t")>> @@
    "ThermalPayload" :> <<One("motor_temp_c", "float"), One("battery_temp_c", "float")>> @@
    "MotorStatusPayload" :> <<One("cmd_id", "uint32_t"), One("speed_rpm", "int16_t"),
                              One("is_active", "bool")>>

\* shared_ptr stands for the pointer to the region: a class whose members are
\* those of its base, so that reflection finds none in it.
AutonomousStructs ==
    "Point2D" :> <<One("x", "float"), One("y", "float")>> @@
    "BoundingBox2D" :> <<One("min_pt", "Point2D"), One("max_pt", "Point2D")>> @@
    "Vector3" :> <<One("x", "float"), One("y", "float"), One("z", "float")>> @@
    "EnvId" :> <<One("id", "uint32_t")>> @@
    "EnvironmentRequestPayload" :> <<One("target_location", "Point2D")>> @@
    "EnvironmentAckPayload" :> <<One("region_id", "uint32_t")>> @@
    "EnvironmentPayload" :> <<One("region_id", "uint32_t"), One("bounds", "BoundingBox2D"),
                              One("ambient_temp_c", "float"), One("incline_percent", "float"),
                              One("surface_friction", "float"), One("max_speed_rpm", "float")>> @@
    "ManeuverNode" :> <<One("target_pos", "Point2D"), One("timeout_ms", "uint16_t")>> @@
    "AutoDriveCommandPayload" :>
        <<CArray("route_name", "char", 32), One("mode", "DriveMode"), One("p_gain", "float"),
          One("use_environment_tuning", "bool"), StdArray("route_transform", "Vector3", 3),
          One("num_nodes", "uint8_t"), StdArray("route", "ManeuverNode", 8)>> @@
    "ManeuverStats" :> <<One("initial_energy_mj", "float"), One("final_energy_mj", "float"),
                         One("energy_per_meter_mj", "float"), One("total_energy_used_mj", "float")>> @@
    "AutoDriveStatusPayload" :>
        <<One("cmd_id", "uint32_t"), One("current_node_idx", "uint8_t"),
          One("route_complete", "bool"), One("num_stats", "uint8_t"),
          StdArray("node_stats", "ManeuverStats", 8), One("num_environments_used", "uint8_t"),
          StdArray("environment_ids", "EnvId", 4)>> @@
    "InternalEnvRequestPayload" :> <<One("x", "float"), One("y", "float")>> @@
    "InternalEnvDataPayload" :> <<One("ptr", "shared_ptr")>> @@
    "shared_ptr" :> <<>>

Structs == CoreStructs @@ SimulationStructs @@ AutonomousStructs

IsClass(t) == t \in DOMAIN Structs

\* MsgId, in the order of the enumerators.
MsgIds == <<"Log", "PhysicsTick", "StateRequest", "StateData", "MotorSequence", "MotorStatus",
            "KinematicsRequest", "KinematicsData", "PowerRequest", "PowerData", "ThermalRequest",
            "ThermalData", "EnvironmentAck", "EnvironmentRequest", "EnvironmentData",
            "AutoDriveCommand", "AutoDriveStatus", "InternalEnvRequest", "InternalEnvData">>

CoreTraits ==
    "Log" :> "LogPayload" @@ "StateRequest" :> "StateRequestPayload" @@
    "StateData" :> "StatePayload" @@ "PhysicsTick" :> "PhysicsTickPayload"

SimulationTraits ==
    "MotorSequence" :> "MotorSequencePayload" @@
    "KinematicsRequest" :> "KinematicsRequestPayload" @@ "KinematicsData" :> "KinematicsPayload" @@
    "PowerRequest" :> "PowerRequestPayload" @@ "PowerData" :> "PowerPayload" @@
    "ThermalRequest" :> "ThermalRequestPayload" @@ "ThermalData" :> "ThermalPayload" @@
    "MotorStatus" :> "MotorStatusPayload"

AutonomousTraits ==
    "EnvironmentAck" :> "EnvironmentAckPayload" @@
    "EnvironmentRequest" :> "EnvironmentRequestPayload" @@
    "EnvironmentData" :> "EnvironmentPayload" @@
    "AutoDriveCommand" :> "AutoDriveCommandPayload" @@
    "AutoDriveStatus" :> "AutoDriveStatusPayload" @@
    "InternalEnvRequest" :> "InternalEnvRequestPayload" @@
    "InternalEnvData" :> "InternalEnvDataPayload"

\* MessageTraits<Id>::Payload
Payload == CoreTraits @@ SimulationTraits @@ AutonomousTraits

-----------------------------------------------------------------------------
(***************************************************************************)
(* The layout of the compiler: each field at the next multiple of its      *)
(* alignment, the size a multiple of the largest alignment.                *)
(***************************************************************************)
AlignUp(n, a) == ((n + a - 1) \div a) * a

\* A table for all types is built from that of the scalars in three steps: structs of
\* scalars first, then structs of those.  No struct is nested deeper.
Known(table) ==
    { t \in DOMAIN Structs : { Structs[t][i].type : i \in DOMAIN Structs[t] } \subseteq DOMAIN table }

\* What a table has for the type of each field of a struct.
UsedBy(t, known) == [i \in DOMAIN Structs[t] |-> known[Structs[t][i].type]]

\* The layout of a struct, given those of the types of its fields.
LayoutOf(t, used) ==
    LET end[i \in 0..Len(used)] ==
            IF i = 0 THEN 0
            ELSE AlignUp(end[i - 1], used[i].align) + Structs[t][i].n * used[i].size
        largest == Max({ used[i].align : i \in DOMAIN used })
    IN  IF t = "shared_ptr" THEN [size |-> 16, align |-> 8, offset |-> <<>>]
        ELSE [size |-> AlignUp(end[Len(used)], largest), align |-> largest,
              offset |-> [i \in DOMAIN used |-> AlignUp(end[i - 1], used[i].align)]]

Layouts[depth \in 0..3] ==
    IF depth = 0
    THEN [t \in DOMAIN Scalars |-> [size |-> Scalars[t][1], align |-> Scalars[t][1], offset |-> <<>>]]
    ELSE LET known == Layouts[depth - 1]
         IN  [t \in Known(known) \cup DOMAIN known |->
                 IF t \in Known(known) THEN LayoutOf(t, UsedBy(t, known)) ELSE known[t]]

Layout == Layouts[3]

SizeOf(t) == Layout[t].size

\* sizeof and offsetof of a field.
FieldSize(f) == f.n * SizeOf(f.type)

(***************************************************************************)
(* A byte of an image: which field it belongs to (the path of names and    *)
(* indices), of what kind, and which byte of the value it is.  A byte that *)
(* belongs to no field is Pad.                                             *)
(***************************************************************************)
Pad == <<>>

ScalarBytes(path, kind, n) == [k \in 1..n |-> <<path, kind, k>>]

In(name, byte) == IF byte = Pad THEN Pad ELSE <<name \o byte[1], byte[2], byte[3]>>

Within(name, image) == [k \in DOMAIN image |-> In(<<name>>, image[k])]

\* n times the same image, each with its index.
Repeated(name, image, n) ==
    LET size == Len(image)
    IN  [k \in 1..(n * size) |-> In(<<name, ((k - 1) \div size) + 1>>, image[((k - 1) % size) + 1])]

\* The image of a struct in memory, given those of the types of its fields.
MemoryOf(t, used) ==
    LET fields == Structs[t]
        image == [i \in DOMAIN fields |->
                     IF fields[i].as = "one" THEN Within(fields[i].name, used[i])
                     ELSE Repeated(fields[i].name, used[i], fields[i].n)]
        begin(i) == Layout[t].offset[i]
        at(k) == { i \in DOMAIN fields : begin(i) < k /\ k <= begin(i) + FieldSize(fields[i]) }
    IN  [k \in 1..SizeOf(t) |->
            IF at(k) = {} THEN Pad ELSE LET i == CHOOSE j \in at(k) : TRUE
                                        IN  image[i][k - begin(i)]]

Images[depth \in 0..3] ==
    IF depth = 0
    THEN [t \in DOMAIN Scalars |-> ScalarBytes(<<>>, Scalars[t][2], SizeOf(t))]
    ELSE LET known == Images[depth - 1]
         IN  [t \in Known(known) \cup DOMAIN known |->
                 IF t \in Known(known) THEN MemoryOf(t, UsedBy(t, known)) ELSE known[t]]

Memory == Images[3]
=============================================================================
