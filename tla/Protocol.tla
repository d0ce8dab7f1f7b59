------------------------------ MODULE Protocol ------------------------------
(***************************************************************************)
(* The wire: what each end writes, and what the other end's decoder makes  *)
(* of it, protocol.Decode of protocol.go and ParseServerMessage of         *)
(* AetherForgeProtocol.cpp.                                                *)
(*                                                                         *)
(* A frame is built by one end, may be changed on the way (another         *)
(* version of the peer, another client, a hand-written frame), and is      *)
(* decoded by the other.  Numbers keep what matters of their width: a      *)
(* seed has SeedBits bits, and a double keeps MantissaBits of them.        *)
(***************************************************************************)
EXTENDS Integers, Sequences, FiniteSets

CONSTANTS SeedBits,      \* bits of an int64 seed without its sign: 63 in the code
          MantissaBits,  \* bits a double keeps: 53 in the code
          MaxChanges     \* bound: changes to a frame on its way

ASSUME ProtocolAssumption ==
    /\ SeedBits \in Nat /\ MantissaBits \in 2..SeedBits
    /\ MaxChanges \in Nat

Pow2[n \in 0..SeedBits + 1] == IF n = 0 THEN 1 ELSE 2 * Pow2[n - 1]

-----------------------------------------------------------------------------
(* JSON.  A value is a function from the positions in it to what stands    *)
(* there.  A position is the sequence of names that leads to it, where an  *)
(* index is the name of an array's element.                                *)

NoText == ""  \* an empty text, or none

Node(k, t, n) == [kind |-> k, text |-> t, num |-> n]

Leaf(node) == [p \in {<< >>} |-> node]
Str(t)  == Leaf(Node("string", t, 0))
Num(n)  == Leaf(Node("number", NoText, n))
Flag(t) == Leaf(Node("bool", t, 0))
Null    == Leaf(Node("null", NoText, 0))

\* An object or an array, from its members by name or index.
Tree(kind, f) ==
    [p \in {<< >>} \cup UNION {{<<n>> \o q : q \in DOMAIN f[n]} : n \in DOMAIN f} |->
        IF p = << >> THEN Node(kind, NoText, 0) ELSE f[Head(p)][Tail(p)]]
Obj(f) == Tree("object", f)
Arr(f) == Tree("array", f)

Prefix(p, k) == SubSeq(p, 1, k)
Parent(p)    == Prefix(p, Len(p) - 1)

\* The value without what is at p, and with w there.
Below(v, p) == {q \in DOMAIN v : Len(q) >= Len(p) /\ Prefix(q, Len(p)) = p}
Cut(v, p)   == [q \in DOMAIN v \ Below(v, p) |-> v[q]]
Put(v, p, w) ==
    LET rest == Cut(v, p) IN
    [q \in DOMAIN rest \cup {p \o r : r \in DOMAIN w} |->
        IF q \in DOMAIN rest THEN rest[q] ELSE w[SubSeq(q, Len(p) + 1, Len(q))]]

Version == 1

-----------------------------------------------------------------------------
(* The message types of both ends, by field.  A type is a scalar, a struct *)
(* of the table, a list or a map.                                          *)

GoStruct == [
    Vec2          |-> [x |-> "float", y |-> "float"],
    Bounds        |-> [min |-> "Vec2", max |-> "Vec2"],
    Transform     |-> [location |-> "Vec2", yaw |-> "float", scale |-> "float"],
    AssetEntry    |-> [category |-> "string", transform |-> "Transform",
                       ground_snap |-> "bool", tags |-> "strings"],
    ManifestEntry |-> [footprint_radius |-> "float", ground_snap |-> "bool",
                       instanceable |-> "bool", display_name |-> "string"],
    Stats         |-> [assets |-> "int", elapsed_ms |-> "int", llm_ms |-> "int"],
    hello    |-> [protocol_version |-> "int", type |-> "string", manifest |-> "manifest"],
    generate |-> [protocol_version |-> "int", type |-> "string", generation_id |-> "string",
                  prompt |-> "string", seed |-> "int", bounds |-> "Bounds"],
    plan     |-> [protocol_version |-> "int", type |-> "string", generation_id |-> "string",
                  seed |-> "int", total_assets |-> "int", categories |-> "counts"],
    chunk    |-> [protocol_version |-> "int", type |-> "string", generation_id |-> "string",
                  assets |-> "assets"],
    complete |-> [protocol_version |-> "int", type |-> "string", generation_id |-> "string",
                  stats |-> "Stats"],
    error    |-> [protocol_version |-> "int", type |-> "string", generation_id |-> "string",
                  code |-> "string", message |-> "string", recoverable |-> "bool"],
    cancel   |-> [protocol_version |-> "int", type |-> "string", generation_id |-> "string"]]

\* The USTRUCTs a frame of the server is imported into, and its parts.
UParts == [
    Vec2       |-> [x |-> "float", y |-> "float"],
    Transform  |-> [location |-> "Vec2", yaw |-> "float", scale |-> "float"],
    AssetEntry |-> [category |-> "string", transform |-> "Transform",
                    ground_snap |-> "bool", tags |-> "strings"]]

UMessages == [
    Stats    |-> [assets |-> "int", elapsed_ms |-> "int", llm_ms |-> "int"],
    plan     |-> [protocol_version |-> "int", type |-> "string", generation_id |-> "string",
                  seed |-> "int", total_assets |-> "int", categories |-> "counts"],
    chunk    |-> [protocol_version |-> "int", type |-> "string", generation_id |-> "string",
                  assets |-> "assets"],
    complete |-> [protocol_version |-> "int", type |-> "string", generation_id |-> "string",
                  stats |-> "Stats"],
    error    |-> [protocol_version |-> "int", type |-> "string", generation_id |-> "string",
                  code |-> "string", message |-> "string", recoverable |-> "bool"]]

UStruct == [T \in DOMAIN UParts \cup DOMAIN UMessages |->
                IF T \in DOMAIN UParts THEN UParts[T] ELSE UMessages[T]]

ListOf == [strings |-> "string", assets |-> "AssetEntry"]
MapOf  == [manifest |-> "ManifestEntry", counts |-> "int"]
KindOf == [string |-> "string", bool |-> "bool", int |-> "number", float |-> "number"]

ServerKinds == {"plan", "chunk", "complete", "error"}
ClientKinds == {"hello", "generate", "cancel"}

\* The type of a member of a T, and of what is at position p of one.
Member(Struct, T, name) ==
    CASE T \in DOMAIN ListOf -> ListOf[T]
      [] T \in DOMAIN MapOf  -> MapOf[T]
      [] T \in DOMAIN Struct -> IF name \in DOMAIN Struct[T] THEN Struct[T][name] ELSE "nothing"
      [] T = "nothing"       -> "nothing"
      [] OTHER               -> "below a scalar"

TypeAt(Struct, T, p) ==
    LET type[k \in 0..Len(p)] ==
            IF k = 0 THEN T ELSE Member(Struct, type[k - 1], p[k])
    IN  type[Len(p)]

\* The kind of JSON that stands for a T.
JsonKind(Struct, T) ==
    CASE T \in DOMAIN KindOf -> KindOf[T]
      [] T \in DOMAIN ListOf -> "array"
      [] T \in DOMAIN MapOf \cup DOMAIN Struct -> "object"
      [] OTHER -> "none"

\* What null stands for: Go's zero value, and the default of a property (for a
\* scale 1, which nothing below reads).
Zero(Struct, T) == Node(JsonKind(Struct, T), IF T = "bool" THEN "false" ELSE NoText, 0)

-----------------------------------------------------------------------------
(* protocol.Decode                                                         *)

\* json.Decoder with DisallowUnknownFields accepts v for a Go value of type
\* T.  null leaves any value as it is.
GoFits(T, v) ==
    \A p \in DOMAIN v :
        LET kind == JsonKind(GoStruct, TypeAt(GoStruct, T, p)) IN
        kind # "none" /\ v[p].kind \in {"null", kind}

Has(v, name, kind) == <<name>> \in DOMAIN v /\ v[<<name>>].kind = kind

\* Decode: the head of the message, its version, and then the strict decoder of
\* its type.
Decode(v) ==
    LET T == v[<<"type">>].text
        head == /\ Has(v, "protocol_version", "number")
                /\ <<"type">> \in DOMAIN v => v[<<"type">>].kind \in {"string", "null"}
    IN  IF ~head THEN "malformed"
        ELSE IF v[<<"protocol_version">>].num # Version THEN "mismatch"
        ELSE IF Has(v, "type", "string") /\ T \in ServerKinds \cup ClientKinds /\ GoFits(T, v) THEN T
        ELSE "malformed"

\* What the handlers read of a message.
GoRead(T, v) ==
    [p \in DOMAIN v |-> IF v[p].kind = "null" THEN Zero(GoStruct, TypeAt(GoStruct, T, p)) ELSE v[p]]

-----------------------------------------------------------------------------
(* ParseServerMessage                                                      *)

\* A whole number through a double: rounded to MantissaBits, ties to even.
Magnitude(n) == IF n < 0 THEN -n ELSE n
Round(n) ==
    LET unit == CHOOSE u \in {Pow2[k] : k \in 0..SeedBits} :
                  /\ Magnitude(n) <= u * Pow2[MantissaBits]
                  /\ u = 1 \/ Magnitude(n) > (u \div 2) * Pow2[MantissaBits]
        low  == (Magnitude(n) \div unit) * unit
        rest == Magnitude(n) - low
        up   == \/ 2 * rest > unit
                \/ 2 * rest = unit /\ (low \div unit) % 2 = 1
        r    == IF up THEN low + unit ELSE low
    IN  IF n < 0 THEN -r ELSE r

\* FJsonObjectConverter::JsonObjectToUStruct: null is skipped, keys without a
\* property are ignored, a value of another kind empties a scalar property and
\* fails any other.
Imports(T, v) ==
    \A p \in DOMAIN v :
        LET U == TypeAt(UStruct, T, p) IN
        U \in DOMAIN ListOf \cup DOMAIN MapOf \cup DOMAIN UStruct
            => v[p].kind \in {"null", JsonKind(UStruct, U)}

\* A null in a map is skipped with its key.
Kept(T, v, p) ==
    /\ JsonKind(UStruct, TypeAt(UStruct, T, p)) # "none"
    /\ p # << >> /\ v[p].kind = "null" => TypeAt(UStruct, T, Parent(p)) \notin DOMAIN MapOf

\* And UStructToJsonObject, as far as it has what the frame had: it also exports
\* the properties that the frame lacks.
Imported(T, v) ==
    [p \in {q \in DOMAIN v : Kept(T, v, q)} |->
        LET U == TypeAt(UStruct, T, p) IN
        CASE v[p].kind # JsonKind(UStruct, U) -> Zero(UStruct, U)
          [] U = "int" /\ v[p].kind = "number" -> [v[p] EXCEPT !.num = Round(@)]
          [] OTHER -> v[p]]

\* FindUnknownField comes to p: both have objects there and on the way, or
\* arrays that are members of an object.
Compared(incoming, known, p) ==
    \A k \in 0..Len(p) :
        LET q == Prefix(p, k) IN
        /\ q \in DOMAIN known /\ known[q].kind = incoming[q].kind
        /\ \/ incoming[q].kind = "object"
           \/ incoming[q].kind = "array" /\ k > 0 /\ incoming[Prefix(p, k - 1)].kind = "object"

\* Mutant: objects inside arrays are not compared.
HasUnknownField_NotInArrays(incoming, known) ==
    \E p \in DOMAIN incoming \ {<< >>} :
        /\ p \notin DOMAIN known
        /\ \A k \in 0..Len(p) - 1 : incoming[Prefix(p, k)].kind = "object"
        /\ Compared(incoming, known, Parent(p))

\* FindUnknownField: a key of the frame that the re-exported struct lacks.
HasUnknownField(incoming, known) ==
    \E p \in DOMAIN incoming \ {<< >>} :
        /\ p \notin DOMAIN known
        /\ incoming[Parent(p)].kind = "object"
        /\ Compared(incoming, known, Parent(p))

StrictDeserialize(T, v) == Imports(T, v) /\ ~HasUnknownField(v, Imported(T, v))

\* What ParseServerMessage asks of each message once it is imported; what the
\* frame lacks is empty or zero.
TextAt(m, p) == IF p \in DOMAIN m THEN m[p].text ELSE NoText

Checks(T, m) ==
    /\ TextAt(m, <<IF T = "error" THEN "code" ELSE "generation_id">>) # NoText
    /\ T = "plan" /\ <<"total_assets">> \in DOMAIN m => m[<<"total_assets">>].num >= 0
    /\ T = "chunk" => \A p \in DOMAIN m :
          Len(p) = 2 /\ p[1] = "assets" => TextAt(m, p \o <<"category">>) # NoText

ParseServerMessage(v) ==
    LET T == v[<<"type">>].text IN
    IF /\ Has(v, "protocol_version", "number") /\ v[<<"protocol_version">>].num = Version
       /\ Has(v, "type", "string") /\ T \in ServerKinds
       /\ StrictDeserialize(T, v) /\ Checks(T, Imported(T, v))
    THEN T ELSE "invalid"

-----------------------------------------------------------------------------
(* What each end builds.                                                   *)

Int64s == -Pow2[SeedBits]..Pow2[SeedBits] - 1

\* Mutant: the server picks any non-negative seed.
ServerSeeds_Any == 0..Pow2[SeedBits] - 1

\* run without a requested seed: the top bits of a random word.  A requested
\* seed is echoed as it came.
ServerSeeds == {s \div Pow2[SeedBits + 1 - MantissaBits] :
                   s \in 0..Pow2[SeedBits + 1] - 1}

Header(type) == [protocol_version |-> Num(Version), type |-> Str(type)]
Message(type, body) == Obj([n \in DOMAIN Header(type) \cup DOMAIN body |->
    IF n \in DOMAIN body THEN body[n] ELSE Header(type)[n]])

Vec(x, y) == Obj([x |-> Num(x), y |-> Num(y)])
Id == [generation_id |-> Str("g")]

Entry(tags) == Obj([
    category |-> Str("rock"), ground_snap |-> Flag("true"), tags |-> Arr([i \in tags |-> Str("flora")]),
    transform |-> Obj([location |-> Vec(-1, 1), yaw |-> Num(0), scale |-> Num(1)])])

\* run and its sends, sendError of orchestrator and server.
PlanFrame(s) == Message("plan", [generation_id |-> Str("g"), seed |-> Num(s),
    total_assets |-> Num(2), categories |-> Obj([rock |-> Num(2)])])

ServerFrames(requested) ==
    {PlanFrame(s) : s \in IF requested = Null THEN ServerSeeds ELSE {requested[<< >>].num}}
    \cup {Message("chunk", [generation_id |-> Str("g"),
              assets |-> Arr([i \in {"0", "1"} |-> Entry(IF i = "0" THEN {} ELSE {"0"})])]),
          Message("complete", [generation_id |-> Str("g"),
              stats |-> Obj([assets |-> Num(2), elapsed_ms |-> Num(3), llm_ms |-> Num(0)])])}
    \cup {Message("error", [generation_id |-> Str(g), code |-> Str("internal"),
              message |-> Str("m"), recoverable |-> Flag(r)]) : g \in {NoText, "g"}, r \in {"true", "false"}}

\* SerializeGenerate: an unset seed is left out, a set one is written digit
\* by digit, not as a double.
GenerateFrame(requested) ==
    LET body == [generation_id |-> Str("g"), prompt |-> Str("p"),
                 bounds |-> Obj([min |-> Vec(-1, -1), max |-> Vec(1, 1)])]
    IN  Message("generate", IF requested = Null THEN body
                            ELSE [n \in DOMAIN body \cup {"seed"} |->
                                    IF n = "seed" THEN requested ELSE body[n]])

\* SerializeHello, SerializeGenerate, SerializeCancel.
ClientFrames(requested) ==
    {GenerateFrame(requested)}
    \cup {Message("cancel", Id)}
    \cup {Message("hello", [manifest |-> Obj(m)]) : m \in {[n \in {} |-> Null],
            [rock |-> Obj([footprint_radius |-> Num(1), ground_snap |-> Flag("true"),
                           instanceable |-> Flag("false"), display_name |-> Str("Rock")])]}}

\* One change to a value: a field added, removed or null, an object in place
\* of a scalar, another number or an empty string.
Changed(v) ==
    LET At(kind) == {p \in DOMAIN v : v[p].kind = kind}
        members  == {p \in DOMAIN v \ {<< >>} : v[Parent(p)].kind = "object"}
        other    == Obj([x |-> Num(1)])
    IN  {Put(v, p \o <<"z">>, Num(1)) : p \in At("object")}
        \cup {Cut(v, p) : p \in members} \cup {Put(v, p, Null) : p \in members}
        \cup {Put(v, p, w) : p \in At("number"), w \in {Num(-1), Num(2), other}}
        \cup {Put(v, p, w) : p \in At("string"), w \in {Str(NoText), other}}

-----------------------------------------------------------------------------
VARIABLES seed,     \* the generation's requested seed, or Null
          from,     \* which end built the frame: "server" or "client"
          frame,    \* the frame on its way
          changes,  \* how often it was changed
          result    \* "none", or what the receiver's decoder returned

vars == <<seed, from, frame, changes, result>>

Init ==
    /\ seed \in {Null} \cup {Num(n) : n \in Int64s}
    /\ \/ from = "server" /\ frame \in ServerFrames(seed)
       \/ from = "client" /\ frame \in ClientFrames(seed)
    /\ changes = 0 /\ result = "none"

Change ==
    /\ result = "none" /\ changes < MaxChanges
    /\ frame' \in Changed(frame)
    /\ changes' = changes + 1
    /\ UNCHANGED <<seed, from, result>>

Receive ==
    /\ result = "none"
    /\ result' = IF from = "client" THEN Decode(frame) ELSE ParseServerMessage(frame)
    /\ UNCHANGED <<seed, from, frame, changes>>

Received == result # "none" /\ UNCHANGED vars

Next == Change \/ Receive \/ Received

Spec == Init /\ [][Next]_vars

-----------------------------------------------------------------------------
(* Properties.                                                             *)

Accepted == result \in ServerKinds \cup ClientKinds

\* contract/README.md's strictness rule as far as both ends keep it: where the
\* message has a struct, at every depth and through lists and maps, what a
\* decoder accepts has no member that the struct lacks.  Only the Go decoder also
\* refuses an object where the message has a scalar, see PerAxisScaleIsRejected.
StructsAreStrict ==
    Accepted => \A p \in DOMAIN frame :
        LET T == TypeAt(GoStruct, result, p) IN
        T # "nothing" /\ (from = "client" => T # "below a scalar")

\* contract/README.md:199, of what is rejected at parse time on both sides: "a `z`
\* on `transform.location`, pitch/roll on `transform`, per-axis (object) `scale`".
PerAxisScaleIsRejected ==
    Accepted => \A p \in DOMAIN frame :
        LET scale == p \o <<"scale">> IN
        TypeAt(GoStruct, result, p) = "Transform" /\ scale \in DOMAIN frame
            => frame[scale].kind # "object"

\* Every message and every struct in it has all its fields, but for a seed
\* that was not requested.
Complete(T, v) ==
    \A p \in DOMAIN v :
        LET U == TypeAt(GoStruct, T, p) IN
        U \in DOMAIN GoStruct => \A n \in DOMAIN GoStruct[U] :
            p \o <<n>> \in DOMAIN v \/ (from = "client" /\ p \o <<n>> = <<"seed">> /\ seed = Null)

\* What one end builds the other end reads as it was meant: every message is
\* accepted, with every field and value.  That holds of a seed the server picks,
\* which the plugin reads through a double, and of any seed the plugin sends;
\* a requested seed that a double cannot hold is not echoed exactly, a limit
\* that AetherForgeProtocolTypes.h states.
SentIsUnderstood ==
    result # "none" /\ changes = 0 =>
        /\ result = frame[<<"type">>].text
        /\ Complete(result, frame)
        /\ LET read == IF from = "server" THEN Imported(result, frame) ELSE GoRead(result, frame)
           IN  /\ DOMAIN read = DOMAIN frame
               /\ \A p \in DOMAIN frame : read[p] = frame[p] \/
                    /\ result = "plan" /\ p = <<"seed">> /\ seed # Null
                    /\ Magnitude(seed[<< >>].num) > Pow2[MantissaBits]
=============================================================================
