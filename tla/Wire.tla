-------------------------------- MODULE Wire --------------------------------
(* The language in which module MarshalStructs writes down what every writer
   and every reader of src/common/marshal.cpp does, in the order it does it:
   one program for the writer and, translated separately, one for the reader.

   A program is a sequence of items, and every constructor below yields a
   program, so programs are put together with \o.  A value to be sent is an
   environment: a function from the names of the fields that decide the shape of
   the message to their values.
     - a count is a number, the presence of an optional pointer is 0 or 1;
     - a handle is "null", "live" (the server knows the id) or "stale";
     - a pNext chain is the sequence of its structure types.
   Every other field is plain data and stands for itself: its value is its name,
   so a field decoded into the place of another one is noticed.

   Common to writers and readers:                                            *)
EXTENDS Naturals, Sequences

\* u32, i32 or f32: one word for each field of fs.  "FALSE" is the constant VK_FALSE.
Words(fs) == [i \in 1..Len(fs) |-> [op |-> "word", f |-> fs[i]]]
Word(f) == Words(<<f>>)
\* u64
Wide(f) == <<[op |-> "wide", f |-> f]>>
\* A handle, as a u64.
Id(f) == <<[op |-> "id", f |-> f]>>
\* sType, written and, when read, compared.
Tag(s) == <<[op |-> "tag", f |-> s]>>
\* The whole struct s as one length-prefixed blob, its pointers set to null: fs are
\* the counts and bits in it, ids its handles.
Raw(s, fs, ids) == <<[op |-> "raw", f |-> s, fs |-> fs, ids |-> ids]>>
\* A blob of the fixed size of f.
Blob(f) == <<[op |-> "raw", f |-> f, fs |-> {}, ids |-> {}]>>
\* The same, set to zero by the writer before it is sent.
ZeroedBlob(f) == <<[op |-> "zeros", f |-> f]>>
\* n elements as one blob, there even when n is 0.
Pods(f, n) == <<[op |-> "pods", f |-> f, n |-> n]>>
\* n handles without a prefix.
Ids(f, n) == <<[op |-> "ids", f |-> f, n |-> n]>>
Texts(f, n) == <<[op |-> "texts", f |-> f, n |-> n]>>
Text(f) == <<[op |-> "raw", f |-> f, fs |-> {}, ids |-> {}]>>
\* The body once for each of n elements.
Each(n, body) == <<[op |-> "each", n |-> n, body |-> body]>>
\* Data of n bytes as one blob; unlike an array it has no limit of its own.
Data(f, n) == <<[op |-> "data", f |-> f, n |-> n]>>
\* The body where f, which both sides know by then, is in S.
When(f, S, body) == <<[op |-> "when", f |-> f, in |-> S, body |-> body]>>
\* A writer whose answer the caller ignores: where it gives up it has added nothing,
\* and the rest is sent all the same.
Try(body) == <<[op |-> "try", body |-> body]>>
\* Give up unless f is in S.
In(f, S) == <<[op |-> "in", f |-> f, in |-> S]>>
\* A presence word, and the body where it is 1.
Opt(f, body) == <<[op |-> "opt", f |-> f, body |-> body]>>
OptPod(f) == Opt(f, Blob(f))
OptPods(f, n) == Opt(f, Pods(f, n))
\* The chain at f, whose types the context ctx limits.
Chain(f, ctx) == <<[op |-> "chain", f |-> f, ctx |-> ctx]>>

(* Readers only. *)
\* if (!r.ok()) return false
Ok == <<[op |-> "ok"]>>
\* if (n > kMaxArrayElements) return false
Limit(n) == <<[op |-> "limit", n |-> n]>>
\* if (n > r.remaining() / bytes) return false
Fits(n, bytes) == <<[op |-> "fits", n |-> n, bytes |-> bytes]>>
\* The handle is resolved; an id nobody knows becomes null.
Patch(f) == <<[op |-> "patch", f |-> f, how |-> "patch"]>>
\* The same, but an id nobody knows is refused.
Checked(f) == <<[op |-> "patch", f |-> f, how |-> "checked"]>>
\* The same, and null is refused too.
Required(f) == <<[op |-> "patch", f |-> f, how |-> "required"]>>
\* The handles of an array of n, unknown ones read as null.
PatchedIds(f, n) == Limit(n) \o Each(n, Id(f) \o Ok \o Patch(f))
\* if (n * 4 != r.remaining()) return false
Exactly(n) == <<[op |-> "exactly", n |-> n]>>

(* Bytes on the wire.  Every blob starts with its length; an element of an array
   of plain data is at least a word, and a struct at least sType and pNext.   *)
W4(f, v) == [k |-> "w4", f |-> f, v |-> v, bytes |-> 4]
W8(f, v) == [k |-> "w8", f |-> f, v |-> v, bytes |-> 8]
PodBytes == 4
RawBytes == 16
Bytes(f, v, size) == [k |-> "blob", f |-> f, v |-> v, bytes |-> 4 + size]
=============================================================================
