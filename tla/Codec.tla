-------------------------------- MODULE Codec --------------------------------
(* A message from the writer on one side to the reader on the other: the writers
   and readers of modules MarshalStructs and PNextChains, and the requests and their
   handlers of CommandRequests, DeviceRequests and QueryRequests, are run over the Writer and the
   Reader of src/common/wire.hpp.  The message may reach the reader cut
   short: a peer of another build, or one of the writers that give up without
   telling their caller, sends less than the reader expects, and the reader must
   refuse it.  Queries with an output chain go both ways: the types of the
   caller's chain travel to the server, and the values back into the chain.   *)
EXTENDS QueryRequests, FiniteSets, FiniteSetsExt, SequencesExt

CONSTANTS
    Kinds,              \* the structs and requests sent; a subset of DOMAIN Codecs
    Queries,            \* the contexts of output chains; a subset of OutputContexts
    kMaxArrayElements,  \* marshal.hpp:53, the most elements of an array
    kMaxPNextNodes      \* marshal.hpp:54, the most nodes of a chain

ASSUME BoundsAreNumbers == kMaxArrayElements \in Nat \ {0} /\ kMaxPNextNodes \in Nat \ {0}

OutputContexts == {"QueryFeaturesOutput", "QueryPropertiesOutput", "ImageFormatPropertiesOutput",
                   "MemoryRequirements2"}
\* Structs by themselves, and whole requests.
Writers == CommandWriters @@ DeviceWriters @@ QueryWriters
Handlers == CommandHandlers @@ DeviceHandlers @@ QueryHandlers
Requests == [k \in DOMAIN Writers |-> Codec(Writers[k], Handlers[k])]
Codecs == Structs @@ Requests
ASSUME KindsAreKnown == Kinds \subseteq DOMAIN Codecs /\ Queries \subseteq OutputContexts

VARIABLES
    phase,     \* "write", "deliver", "read", "apply", "done", "unsent"
    kind,      \* the struct, or the context of a query
    value,     \* the environment to be sent
    wire,      \* the tokens of the message
    cut,       \* whether the message lost its end
    wrote,     \* whether the writer reported success
    result     \* what the reader made of it

vars == <<phase, kind, value, wire, cut, wrote, result>>

-----------------------------------------------------------------------------
(* The Writer. *)

\* A field that does not decide the shape of the message stands for itself.
Of(env, f) == IF f \in DOMAIN env THEN env[f] ELSE f

\* collect_chain: the nodes to send, or a refusal.  The loader's own node at the
\* head of a device's chain is passed over.
Nodes(ctx, chain) ==
    IF ctx = "DeviceCreate" THEN SelectSeq(chain, LAMBDA t : t # "LOADER_DEVICE_CREATE_INFO") ELSE chain
collect_chain(ctx, nodes) ==
    /\ Len(nodes) <= kMaxPNextNodes
    /\ \A i \in DOMAIN nodes : nodes[i] \in pnext_allowed[ctx]
    /\ IsInjective(nodes)

\* What a program has written: whether all of it, whether the request is still to be
\* sent, and its tokens.
Wrote(toks) == [ok |-> TRUE, sent |-> TRUE, toks |-> toks]
GaveUp == [ok |-> FALSE, sent |-> FALSE, toks |-> <<>>]
Ignored == [ok |-> FALSE, sent |-> TRUE, toks |-> <<>>]
Join(parts) ==
    IF \A i \in DOMAIN parts : parts[i].sent
    THEN [ok |-> \A i \in DOMAIN parts : parts[i].ok, sent |-> TRUE,
          toks |-> FlattenSeq([i \in DOMAIN parts |-> parts[i].toks])]
    ELSE GaveUp

\* The program run on env: its tokens, or nothing at all where it gives up, because
\* every writer that can give up puts its bytes in a buffer of its own first.
RECURSIVE Put(_, _)
PutChain(ctx, nodes, env) ==
    IF collect_chain(ctx, nodes) /\ \A i \in DOMAIN nodes : nodes[i] \in DOMAIN write_node_fields
    THEN Join(<<Wrote(<<W4("count", Len(nodes))>>)>> \o
              [i \in DOMAIN nodes |-> Join(<<Wrote(<<W4("sType", nodes[i])>>),
                                            Put(write_node_fields[nodes[i]], env)>>)])
    ELSE GaveUp
PutItem(it, env) ==
    CASE it.op = "word" -> Wrote(<<W4(it.f, Of(env, it.f))>>)
      [] it.op \in {"wide", "id"} -> Wrote(<<W8(it.f, Of(env, it.f))>>)
      [] it.op = "tag" -> Wrote(<<W4("tag", it.f)>>)
      [] it.op = "raw" ->
            Wrote(<<Bytes(it.f, [f \in it.fs \cup it.ids |-> Of(env, f)], RawBytes)>>)
      [] it.op = "zeros" -> Wrote(<<Bytes(it.f, [f \in {it.f} |-> "FALSE"], RawBytes)>>)
      [] it.op \in {"pods", "data"} -> Wrote(<<Bytes(it.f, env[it.n], PodBytes * env[it.n])>>)
      [] it.op = "ids" -> Wrote([i \in 1..env[it.n] |-> W8(it.f, env[it.f])])
      [] it.op = "texts" -> Wrote([i \in 1..env[it.n] |-> Bytes(it.f, <<>>, 0)])
      [] it.op = "each" ->
            LET once == Put(it.body, env) IN Join([i \in 1..env[it.n] |-> once])
      [] it.op = "try" -> LET put == Put(it.body, env) IN IF put.ok THEN put ELSE Ignored
      [] it.op = "when" -> IF env[it.f] \in it.in THEN Put(it.body, env) ELSE Wrote(<<>>)
      [] it.op = "in" -> IF env[it.f] \in it.in THEN Wrote(<<>>) ELSE GaveUp
      [] it.op = "opt" ->
            Join(<<Wrote(<<W4(it.f, env[it.f])>>), IF env[it.f] = 1 THEN Put(it.body, env) ELSE Wrote(<<>>)>>)
      [] it.op = "chain" -> PutChain(it.ctx, Nodes(it.ctx, env[it.f]), env)
Put(prog, env) == Join([i \in DOMAIN prog |-> PutItem(prog[i], env)])

-----------------------------------------------------------------------------
(* The Reader: the bytes left, the fields decoded so far, whether it has failed,
   and why the function that reads gave up, if it did.  Reading past the end
   yields 0 and makes every later read fail.                                  *)
Start(toks) == [in |-> toks, out |-> <<>>, good |-> TRUE, why |-> "", ids |-> {}]
Refuse(st, why) == [st EXCEPT !.why = why]
RECURSIVE Size(_)
Size(toks) == IF toks = <<>> THEN 0 ELSE Head(toks).bytes + Size(Tail(toks))
Remaining(st) == IF st.good THEN Size(st.in) ELSE 0

\* One read of kind k: the value and what is left.  A read of the wrong kind takes
\* bytes apart that were written as something else.
TakeOr(st, k, f, zero) ==
    IF ~st.good \/ st.in = <<>> THEN [st EXCEPT !.good = FALSE, !.out = (f :> zero) @@ @]
    ELSE IF Head(st.in).k # k THEN Refuse(st, "misread")
    ELSE [st EXCEPT !.in = Tail(@), !.out = (f :> Head(st.in).v) @@ @]
Take(st, k, f) == TakeOr(st, k, f, 0)
\* r.bytes(): its callers all return false at once when it fails.
TakeBytes(st, size, name) ==
    LET t == Take(st, "blob", "bytes")
    IN  IF t.why # "" THEN t
        ELSE IF ~t.good THEN Refuse(t, "short")
        ELSE IF Head(st.in).f # name THEN Refuse(t, "misread")
        ELSE IF size # -1 /\ t.out["bytes"] # size THEN Refuse(t, "size")
        ELSE t

\* What resolving a handle gives: "native" where the server knows the id.
Resolve(id) == IF id = "live" THEN "native" ELSE "none"
PatchId(st, f, how) ==
    LET id == st.out[f]
    IN  IF \/ how = "checked" /\ id = "stale"
           \/ how = "required" /\ id # "live"
        THEN Refuse(st, "handle")
        ELSE [st EXCEPT !.out[f] = Resolve(id)]

RECURSIVE Get(_, _)
RECURSIVE Times(_, _, _)
Times(prog, n, st) == IF n = 0 \/ st.why # "" THEN st ELSE Times(prog, n - 1, Get(prog, st))

\* read_pnext_chain
GetNode(ctx, st) ==
    LET t == Take(st, "w4", "sType")
        type == t.out["sType"]
    IN  IF t.why # "" THEN t
        ELSE IF ~t.good THEN Refuse(t, "short")
        ELSE IF \/ type \notin pnext_allowed[ctx] \cap pnext_node_size \cap DOMAIN read_node_fields
                \/ type \in Range(t.out["types"])
        THEN Refuse(t, "chain")
        ELSE Get(read_node_fields[type] \o Ok, [t EXCEPT !.out["types"] = Append(@, type)])
RECURSIVE GetNodes(_, _, _)
GetNodes(ctx, n, st) == IF n = 0 \/ st.why # "" THEN st ELSE GetNodes(ctx, n - 1, GetNode(ctx, st))
GetChain(ctx, f, st) ==
    LET c == Take(st, "w4", "count")
        all == GetNodes(ctx, c.out["count"], [c EXCEPT !.out = ("types" :> <<>>) @@ @])
    IN  IF c.why # "" THEN c
        ELSE IF ~c.good THEN Refuse(c, "short")
        ELSE IF c.out["count"] > kMaxPNextNodes THEN Refuse(c, "limit")
        ELSE [all EXCEPT !.out = (f :> all.out["types"]) @@ @]

GetItem(it, st) ==
    CASE it.op = "word" -> Take(st, "w4", it.f)
      [] it.op = "wide" -> Take(st, "w8", it.f)
      [] it.op = "id" -> [TakeOr(st, "w8", it.f, "null") EXCEPT !.ids = @ \cup {it.f}]
      [] it.op = "tag" ->
            LET t == Take(st, "w4", "tag")
            IN  IF t.why = "" /\ t.good /\ t.out["tag"] # it.f THEN Refuse(t, "tag") ELSE t
      [] it.op = "raw" ->
            LET t == TakeBytes(st, -1, it.f)
            IN  IF t.why # "" THEN t
                ELSE [t EXCEPT !.out = t.out["bytes"] @@ @, !.ids = @ \cup it.ids]
      [] it.op = "pods" ->
            IF st.out[it.n] > kMaxArrayElements THEN Refuse(st, "limit")
            ELSE TakeBytes(st, st.out[it.n], it.f)
      [] it.op = "data" -> TakeBytes(st, st.out[it.n], it.f)
      [] it.op = "texts" ->
            IF st.out[it.n] > kMaxArrayElements THEN Refuse(st, "limit")
            ELSE Times(Text(it.f), st.out[it.n], st)
      [] it.op = "each" -> Times(it.body, st.out[it.n], st)
      [] it.op = "when" -> IF st.out[it.f] \in it.in THEN Get(it.body, st) ELSE st
      [] it.op = "in" -> IF st.out[it.f] \in it.in THEN st ELSE Refuse(st, "rule")
      [] it.op = "opt" ->
            LET t == Take(st, "w4", it.f)
            IN  IF t.why # "" THEN t
                ELSE IF ~t.good THEN Refuse(t, "short")
                ELSE IF t.out[it.f] = 1 THEN Get(it.body, t) ELSE t
      [] it.op = "chain" -> GetChain(it.ctx, it.f, st)
      [] it.op = "ok" -> IF st.good THEN st ELSE Refuse(st, "short")
      [] it.op = "limit" -> IF st.out[it.n] > kMaxArrayElements THEN Refuse(st, "limit") ELSE st
      [] it.op = "fits" -> IF st.out[it.n] * it.bytes > Remaining(st) THEN Refuse(st, "fits") ELSE st
      [] it.op = "exactly" -> IF st.out[it.n] * 4 # Remaining(st) THEN Refuse(st, "size") ELSE st
      [] it.op = "end" -> IF st.good /\ st.in # <<>> THEN Refuse(st, "size") ELSE st
      [] it.op = "patch" -> PatchId(st, it.f, it.how)
Get(prog, st) ==
    IF prog = <<>> \/ st.why # "" THEN st ELSE Get(Tail(prog), GetItem(Head(prog), st))

-----------------------------------------------------------------------------
(* The values sent.  The fields that decide the shape of a struct are found in its
   programs; every combination that differs from the emptiest or from the fullest
   value in at most two of them is tried.                                     *)
RECURSIVE Fields(_)
FieldsOf(it) ==
    (IF "n" \in DOMAIN it THEN {<<it.n, "count">>} ELSE {})
    \cup (IF it.op \in {"id", "ids"} THEN {<<it.f, "id">>} ELSE {})
    \cup (IF it.op = "raw" THEN {<<f, "id">> : f \in it.ids} ELSE {})
    \cup (IF it.op \in {"opt", "when", "in"} THEN {<<it.f, "bit">>} ELSE {})
    \cup (IF it.op = "chain"
          THEN {<<it.f, it.ctx>>} \cup UNION {Fields(write_node_fields[t]) : t \in pnext_allowed[it.ctx]}
          ELSE {})
    \cup (IF "body" \in DOMAIN it THEN Fields(it.body) ELSE {})
Fields(prog) == UNION {FieldsOf(prog[i]) : i \in DOMAIN prog}

\* Chains: none, each type alone, two different types, one type twice, a type no
\* context allows, and more nodes than fit.
Chains(ctx) ==
    LET ts == pnext_allowed[ctx]
    IN  {<<>>, <<"UNKNOWN">>} \cup {<<t>> : t \in ts} \cup {<<t, t>> : t \in ts}
        \cup {<<t, CHOOSE u \in ts : u # t>> : t \in {x \in ts : ts # {x}}}
        \cup (IF Cardinality(ts) > kMaxPNextNodes
              THEN {SetToSeq(CHOOSE S \in kSubset(kMaxPNextNodes + 1, ts) : TRUE)} ELSE {})
        \cup (IF ctx = "DeviceCreate"
              THEN {<<"LOADER_DEVICE_CREATE_INFO", "MULTIVIEW_FEATURES">>} ELSE {})

Domain(f, kinds) ==
    IF f = "descriptorType" THEN DescriptorTypes \cup {"other"}
    ELSE IF "id" \in kinds THEN {"live", "null", "stale"}
    ELSE IF "count" \in kinds THEN 0..kMaxArrayElements
    ELSE IF "bit" \in kinds THEN {0, 1}
    ELSE UNION {Chains(ctx) : ctx \in kinds}

Emptiest(f, kinds) ==
    IF f = "descriptorType" THEN "BUFFER"
    ELSE IF "id" \in kinds THEN "live" ELSE IF kinds \cap {"count", "bit"} # {} THEN 0 ELSE <<>>
Fullest(f, kinds) ==
    IF f = "descriptorType" THEN "COMBINED_IMAGE_SAMPLER"
    ELSE IF "id" \in kinds THEN "live"
    ELSE IF "count" \in kinds THEN kMaxArrayElements
    ELSE IF "bit" \in kinds THEN (IF f \in {"hasNext", "updateAfterBind", "inheritanceNext", "otherFlags", "deviceMask", "unaligned"}
                                  THEN 0 ELSE 1)
    ELSE LET ts == UNION {pnext_allowed[ctx] : ctx \in kinds}
         IN  IF ts = {} THEN <<>> ELSE <<CHOOSE t \in ts : TRUE>>

ShapeOf(fs) == [f \in {x[1] : x \in fs} |-> {x[2] : x \in {y \in fs : y[1] = f}}]
FieldsOfBoth(c) == Fields(c.w) \cup Fields(c.r)
Shapes == [k \in Kinds |-> ShapeOf(FieldsOfBoth(Codecs[k]))]
Bases(sh) == {[f \in DOMAIN sh |-> Emptiest(f, sh[f])], [f \in DOMAIN sh |-> Fullest(f, sh[f])]}

\* Values of a shape that differ from the set vs in one field.
Varied(sh, vs) ==
    UNION {{[e EXCEPT ![f] = v] : v \in Domain(f, sh[f])} : e \in vs, f \in DOMAIN sh}
\* Values that differ from a base in at most one field, and in at most two.
Near(sh) == Varied(sh, Bases(sh)) \cup Bases(sh)
Far(sh) == Varied(sh, Near(sh)) \cup Bases(sh)
NearValues == [k \in Kinds |-> Near(Shapes[k])]
Values == [k \in Kinds |-> Far(Shapes[k])]

-----------------------------------------------------------------------------
Nothing == Start(<<>>)
\* The plane of an image is an input of the query and never in its output chain.
OutputChains(ctx) == {c \in Chains(ctx) : "IMAGE_PLANE_MEMORY_REQUIREMENTS_INFO" \notin Range(c)}

Init ==
    /\ phase = "write"
    /\ \/ kind \in Kinds /\ value \in Values[kind]
       \/ kind \in Queries /\ value \in {[pNext |-> c] : c \in OutputChains(kind)}
    /\ wire = <<>> /\ cut = FALSE /\ wrote = FALSE /\ result = Nothing

\* write_X into the request.  A request whose writer gives up is not sent at all.
WriteStruct ==
    /\ phase = "write" /\ kind \in Kinds
    /\ LET put == Put(Codecs[kind].w, value)
       IN  /\ wire' = put.toks /\ wrote' = put.ok
           /\ phase' = IF put.sent \/ kind \in DOMAIN Structs THEN "deliver" ELSE "unsent"
    /\ UNCHANGED <<kind, value, cut, result>>

\* The message arrives, whole or without its end.
DeliverWhole ==
    /\ phase = "deliver" /\ phase' = "read"
    /\ UNCHANGED <<kind, value, wire, cut, wrote, result>>
DeliverCut ==
    /\ phase = "deliver" /\ kind \in Kinds /\ value \in NearValues[kind]
    /\ \E n \in 0..Len(wire) - 1 : wire' = SubSeq(wire, 1, n)
    /\ cut' = TRUE /\ phase' = "read"
    /\ UNCHANGED <<kind, value, wrote, result>>

\* read_X on the other side.
ReadStruct ==
    /\ phase = "read" /\ kind \in Kinds
    /\ result' = Get(Codecs[kind].r, Start(wire))
    /\ phase' = "done"
    /\ UNCHANGED <<kind, value, wire, cut, wrote>>

-----------------------------------------------------------------------------
(* Output chains. *)

\* write_pnext_output_topology: the types of the caller's chain.
write_pnext_output_topology ==
    /\ phase = "write" /\ kind \in Queries
    /\ wrote' = collect_chain(kind, value.pNext)
    /\ wire' = IF wrote' THEN <<W4("count", Len(value.pNext))>> \o
                              [i \in DOMAIN value.pNext |-> W4("sType", value.pNext[i])]
               ELSE <<>>
    /\ phase' = IF wrote' THEN "deliver" ELSE "done"
    /\ UNCHANGED <<kind, value, cut, result>>

\* read_pnext_output_topology: the server builds a chain of the same types, has the
\* driver fill it in, and write_pnext_output_values sends it.
Topology(toks) ==
    LET types == [i \in 1..Len(toks) - 1 |-> toks[i + 1].v]
    IN  IF /\ toks # <<>> /\ toks[1].v = Len(types) /\ Len(types) <= kMaxPNextNodes
           /\ \A i \in DOMAIN types : types[i] \in pnext_allowed[kind] \cap pnext_node_size
           /\ IsInjective(types)
        THEN types ELSE <<"REFUSED">>
AnswerQuery ==
    /\ phase = "read" /\ kind \in Queries
    /\ LET types == Topology(wire)
           put == IF types = <<"REFUSED">> THEN GaveUp ELSE PutChain(kind, types, <<>>)
       IN  /\ wire' = put.toks /\ wrote' = put.ok
           /\ phase' = IF put.ok THEN "apply" ELSE "done"
    /\ UNCHANGED <<kind, value, cut, result>>

\* apply_pnext_output_values: the values go into the caller's nodes, whose types
\* must come in the caller's order and must each have a case.
apply_pnext_output_values ==
    /\ phase = "apply"
    /\ LET st == GetChain(kind, "pNext", Start(wire))
       IN  result' =
            IF st.why = "" /\ (st.out.pNext # value.pNext \/ ~(Range(st.out.pNext) \subseteq CopyOutput))
            THEN Refuse(st, "chain") ELSE st
    /\ phase' = "done"
    /\ UNCHANGED <<kind, value, wire, cut, wrote>>

Done == phase \in {"done", "unsent"} /\ UNCHANGED vars

Next ==
    \/ WriteStruct \/ DeliverWhole \/ DeliverCut \/ ReadStruct
    \/ write_pnext_output_topology \/ AnswerQuery \/ apply_pnext_output_values
    \/ Done

Spec == Init /\ [][Next]_vars

-----------------------------------------------------------------------------
(* Properties. *)

RECURSIVE PlainFields(_)
PlainFields(prog) ==
    UNION {IF "body" \in DOMAIN prog[i] THEN PlainFields(prog[i].body)
           ELSE IF prog[i].op \in {"word", "wide"} THEN {prog[i].f} ELSE {} : i \in DOMAIN prog}
Plain == [k \in Kinds |-> PlainFields(Codecs[k].r) \ DOMAIN Shapes[k]]

TypeOK ==
    /\ phase \in {"write", "deliver", "read", "apply", "done", "unsent"}
    /\ kind \in Kinds \cup Queries
    /\ {cut, wrote, result.good} \subseteq BOOLEAN
    /\ kind \in Queries /\ phase \in {"deliver", "read"} => Len(wire) \in 1..kMaxPNextNodes + 1
    /\ result.why \in {"", "short", "misread", "size", "limit", "fits", "tag", "chain", "handle", "rule"}

Received == phase = "done" /\ kind \in Kinds
Accepted == result.why = ""
Unknown(f) == f \in DOMAIN value /\ value[f] \in {"null", "stale"}
\* What the readers refuse although the writers send it: a chain where no extension
\* is supported, a query pool without queries, a copy without regions or bytes, and an
\* offset that is not a multiple of 4.
NotSupported ==
    \E f \in DOMAIN value : \/ f \in {"hasNext", "inheritanceNext", "unaligned"} /\ value[f] = 1
                            \/ f \in {"queryCount", "imageRegionCount", "dataSize"} /\ value[f] = 0

\* A whole message is accepted and understood: no byte is left, every count, every
\* presence bit and every node of a chain comes out as it went in, every field
\* holds its own value, and every live handle is resolved.  The reader refuses only
\* what it is meant to refuse (marshal.cpp, each write_X against its read_X).
RoundTrip ==
    Received /\ wrote /\ ~cut =>
        \/ result.why = "rule" /\ NotSupported
        \/ result.why = "handle" /\ \E f \in result.ids : Unknown(f)
        \/ /\ Accepted /\ result.good /\ result.in = <<>>
           /\ \A f \in DOMAIN result.out \cap DOMAIN value :
                result.out[f] = IF f \in result.ids THEN Resolve(value[f])
                                ELSE IF f = "pNext" /\ kind \in {"DeviceCreateInfo", "CreateDevice"} THEN Nodes("DeviceCreate", value[f])
                                ELSE value[f]
           /\ \A f \in DOMAIN result.out \cap Plain[kind] : result.out[f] = f

\* A message that ends early is refused, wherever it ends, and so is what is left
\* of a request whose writer gave up (wire.hpp:90, "a malformed or truncated message
\* reports an error"): no reader takes the zeros past the end for data.
\* The exceptions are handle_CmdPipelineBarrier (handlers_command.cpp:463), which takes
\* a message that ends before the count of its buffer or image barriers for one
\* without them, handle_QueueBindSparse (handlers_device.cpp:193), which takes one
\* that ends before its count for one without binds, and five replies: the devices
\* (physical_device.cpp:52), the sparse formats and the events of a window are taken
\* for none when the reply ends before their count, and the memory types
\* (physical_device.cpp:156) are filled up with zeros.
Unguarded ==
    {"CmdPipelineBarrier", "QueueBindSparse", "EnumeratePhysicalDevicesReply", "MemoryPropertiesReply",
     "SparseImageFormatPropertiesReply", "SparseImageFormatProperties2Reply", "PollWindowEventsReply"}
ShortRefused == Received /\ (cut \/ ~wrote) /\ kind \notin Unguarded => ~Accepted

\* The same of every message there is.
EveryShortRefused == Received /\ (cut \/ ~wrote) => ~Accepted

\* No client id is ever passed to the driver as a handle: in a whole message that is
\* accepted, every handle field is a native handle the id stands for, or null
\* (patch_handle and the checks after it).  Cut messages are ShortRefused's.
NoClientHandle ==
    Received /\ Accepted /\ ~cut =>
        \A f \in result.ids \cap DOMAIN result.out :
            /\ result.out[f] \in {"native", "none"}
            /\ Unknown(f) => result.out[f] = "none"

\* A query whose chain the client lets through comes back with every node of the
\* caller's chain filled in: the lists of allowed, sized, written, read and copied
\* types agree (pnext_allowed to apply_pnext_output_values).
QueryAnswered ==
    phase = "done" /\ kind \in Queries /\ collect_chain(kind, value.pNext) =>
        Accepted /\ result.in = <<>> /\ result.out.pNext = value.pNext

\* A feature the remoting contract hides is written as false and comes out false on
\* the other side, through whichever of the structs that carry it, in a reply that
\* reports it and in a request for a device (extension_contract.hpp:106,
\* apply_vulkan12_feature_policy and its siblings); the limits of descriptors that
\* are updated after they were bound come out zero (marshal.cpp:510).  That the
\* client refuses a device asked for with such a feature is not what this says.
HiddenStaysHidden ==
    phase = "done" /\ Accepted =>
        \A f \in DOMAIN result.out \cap (Vulkan12Hidden \cup
            {"protectedMemory", "protectedNoFault", "descriptorIndexingProperties"}) :
            result.out[f] = "FALSE"

\* Writers and readers agree, about structs and requests as about output chains.
Understood == TypeOK /\ RoundTrip /\ QueryAnswered
=============================================================================
