-------------------------------- MODULE GGUF --------------------------------
(***************************************************************************)
(* The GGUF parser (src/src/model_loader/gguf) over the fields of a file,   *)
(* and the accessors that read what it has parsed.                          *)
(*                                                                         *)
(* A file is [kind, kvs, tensors]: what its first bytes say, its metadata   *)
(* and its tensor entries.  What lies in the mapped region is its tape, the *)
(* fields of the format one after the other; the parser reads the tape at   *)
(* offsets that it computes itself, from the sizes of what it has read.     *)
(* A string is [len, text]; values are scalars, strings, and arrays of them *)
(* (arrays of arrays, which no model file has, are left out).               *)
(***************************************************************************)
EXTENDS Integers, Sequences, SequencesExt

CONSTANT IntLimit   \* the first number that an int cannot hold: 2^31

ScalarTypes == {"uint8", "int8", "uint16", "int16", "uint32", "int32", "float32", "bool", "uint64",
                "int64", "float64"}
ElementTypes == ScalarTypes \cup {"string"}
Types == ElementTypes \cup {"array"}

\* The files there are: what their entries hold, by its type.  No two tensors
\* have the same name.
Strings(texts) == [len : Nat, text : texts]
ElementsOf(dtype) ==
  IF dtype = "string" THEN Strings(STRING)
  ELSE IF dtype \in {"uint8", "uint16", "uint32", "uint64", "bool"} THEN Nat ELSE Int
IsValue(v) ==
  IF v.dtype = "array"
  THEN v \in [dtype : {"array"}, elem : ElementTypes, num : Seq(ElementsOf(v.elem))]
  ELSE v \in [dtype : ElementTypes, num : ElementsOf(v.dtype)]
IsEntry(kv) == kv.key \in Strings(STRING) /\ IsValue(kv.val)
IsTensor(t) ==
  t \in [name : Strings(Int \X STRING), dims : Seq(Nat), offset : Nat]
IsFile(f) ==
  /\ Len(f.kvs) \in Nat /\ \A j \in 1..Len(f.kvs) : IsEntry(f.kvs[j])
  /\ Len(f.tensors) \in Nat /\ \A j \in 1..Len(f.tensors) : IsTensor(f.tensors[j])
  /\ \A i, j \in 1..Len(f.tensors) : f.tensors[i].name.text = f.tensors[j].name.text => i = j

-----------------------------------------------------------------------------
\* The layout of a file (external: the GGUF format).

Width(dtype) ==
  CASE dtype \in {"uint8", "int8", "bool"} -> 1
    [] dtype \in {"uint16", "int16"} -> 2
    [] dtype \in {"uint32", "int32", "float32"} -> 4
    [] dtype \in {"uint64", "int64", "float64"} -> 8

Field(kind, width, num) == [kind |-> kind, width |-> width, num |-> num]
StringFields(s) == <<Field("length", 8, s.len), Field("bytes", s.len, s.text)>>
ScalarFields(dtype, num) ==
  IF dtype = "string" THEN StringFields(num) ELSE <<Field(dtype, Width(dtype), num)>>
ValueFields(v) ==
  IF v.dtype # "array" THEN ScalarFields(v.dtype, v.num)
  ELSE <<Field("dtype", 4, v.elem), Field("length", 8, Len(v.num))>>
       \o FlattenSeq([j \in 1..Len(v.num) |-> ScalarFields(v.elem, v.num[j])])
EntryFields(kv) == StringFields(kv.key) \o <<Field("dtype", 4, kv.val.dtype)>> \o ValueFields(kv.val)
TensorFields(t) ==
  StringFields(t.name) \o <<Field("n_dims", 4, Len(t.dims))>>
  \o [d \in 1..Len(t.dims) |-> Field("dim", 8, t.dims[d])]
  \o <<Field("ggml_type", 4, 0), Field("offset", 8, t.offset)>>

Header == Field("header", 24, 0)
Fields(f) ==
  <<Header>> \o FlattenSeq([j \in 1..Len(f.kvs) |-> EntryFields(f.kvs[j])])
             \o FlattenSeq([j \in 1..Len(f.tensors) |-> TensorFields(f.tensors[j])])

\* The tape of a file: what lies at which offset, and where the entries end.
Tape(f) ==
  LET fields == Fields(f)
      begin[j \in 1..(Len(fields) + 1)] == IF j = 1 THEN 0 ELSE begin[j - 1] + fields[j - 1].width
      Is(j, at) == <<begin[j], fields[j].kind>> = at
  IN  [at |-> [at \in {<<begin[j], fields[j].kind>> : j \in 1..Len(fields)} |->
                 fields[CHOOSE j \in 1..Len(fields) : Is(j, at)].num],
       end |-> begin[Len(fields) + 1]]

\* The bytes that fields take, and the files whose entries an int can count,
\* both how many there are and the bytes of each.
Extent(fields) ==
  LET end[j \in 0..Len(fields)] == IF j = 0 THEN 0 ELSE end[j - 1] + fields[j].width
  IN  end[Len(fields)]
WithinInt(f) ==
  /\ Len(f.kvs) < IntLimit
  /\ \A j \in 1..Len(f.kvs) : Extent(EntryFields(f.kvs[j])) < IntLimit
  /\ Len(f.tensors) < IntLimit
  /\ \A j \in 1..Len(f.tensors) : Extent(TensorFields(f.tensors[j])) < IntLimit

\* What a read of kind at offset p finds: the field that begins there, or
\* bytes that mean something else.
Fits(tape, p, kind) == <<p, kind>> \in DOMAIN tape.at
At(tape, p, kind) == tape.at[<<p, kind>>]

-----------------------------------------------------------------------------
\* The parser.  Every from_ptr gives [ok, size, num]: ok is FALSE when it has
\* read at a wrong place, size is what size() answers, num what was read.

\* The conversion of a 64-bit number to int.  The sum over an array is kept in
\* an int, whose overflow is undefined; a build that lets it wrap and one that
\* keeps it in a wider register return the same low bits.
ToInt(n) == ((n + IntLimit) % (2 * IntLimit)) - IntLimit

Failed == [ok |-> FALSE, size |-> 0, num |-> 0]
Parsed(size, num) == [ok |-> TRUE, size |-> size, num |-> num]

StringFromPtr(tape, p) ==
  IF ~Fits(tape, p, "length") \/ ~Fits(tape, p + 8, "bytes") THEN Failed
  ELSE LET len == At(tape, p, "length")
       IN  Parsed(ToInt(8 + len), [len |-> len, text |-> At(tape, p + 8, "bytes")])

\* MetadataPrimitiveValue::from_ptr
PrimitiveFromPtr(tape, p, dtype) ==
  IF ~Fits(tape, p, dtype) THEN Failed ELSE Parsed(Width(dtype), At(tape, p, dtype))

ElementFromPtr(tape, p, dtype) ==
  IF dtype = "string" THEN StringFromPtr(tape, p) ELSE PrimitiveFromPtr(tape, p, dtype)

\* Mutant: the size leaves the length field out.
ArraySizeShort(elementsSize) == ToInt(4 + elementsSize)

\* MetadataArrayValue::size
ArraySize(elementsSize) == ToInt(4 + 8 + elementsSize)

\* The loop over the elements: after k of them, cur, relative to the first one,
\* and what was read.  cur is a pointer and counts on where an int does not.
ElementsFromPtr(tape, p, dtype, len) ==
  LET read[k \in 0..len] ==
        IF k = 0 THEN Parsed(0, <<>>)
        ELSE LET so == read[k - 1]
                 e == ElementFromPtr(tape, p + so.size, dtype)
             IN  [ok |-> so.ok /\ e.ok, size |-> so.size + e.size, num |-> Append(so.num, e.num)]
  IN  read[len]

\* MetadataArrayValue::from_ptr
ArrayFromPtr(tape, p) ==
  IF ~Fits(tape, p, "dtype") \/ ~Fits(tape, p + 4, "length") THEN Failed
  ELSE LET elements == ElementsFromPtr(tape, p + 12, At(tape, p, "dtype"), At(tape, p + 4, "length"))
       IN  [ok |-> elements.ok, size |-> ArraySize(elements.size), num |-> elements.num]

\* Metadata::from_ptr and Metadata::size
MetadataFromPtr(tape, p) ==
  LET key == StringFromPtr(tape, p)
      typeAt == p + key.size
  IN  IF ~key.ok \/ ~Fits(tape, typeAt, "dtype") THEN Failed
      ELSE LET dtype == At(tape, typeAt, "dtype")
               val == IF dtype = "array" THEN ArrayFromPtr(tape, typeAt + 4)
                                         ELSE ElementFromPtr(tape, typeAt + 4, dtype)
           IN  [ok |-> val.ok, size |-> ToInt(key.size + 4 + val.size), key |-> key.num,
                val |-> IF dtype = "array"
                        THEN [dtype |-> dtype, elem |-> At(tape, typeAt + 4, "dtype"), num |-> val.num]
                        ELSE [dtype |-> dtype, num |-> val.num]]

\* TensorInfo::size
TensorInfoSize(nameSize, n) == ToInt(nameSize + 4 + 8 * n + 4 + 8)

\* TensorInfo::from_ptr
TensorInfoFromPtr(tape, p) ==
  LET name == StringFromPtr(tape, p)
      dims == p + name.size + 4
  IN  IF ~name.ok \/ ~Fits(tape, dims - 4, "n_dims") THEN Failed
      ELSE LET n == At(tape, dims - 4, "n_dims")
           IN  IF /\ \A d \in 0..(n - 1) : Fits(tape, dims + 8 * d, "dim")
                  /\ Fits(tape, dims + 8 * n, "ggml_type")
                  /\ Fits(tape, dims + 8 * n + 4, "offset")
               THEN [ok |-> TRUE, size |-> TensorInfoSize(name.size, n), name |-> name.num,
                     info |-> [dims |-> [d \in 1..n |-> At(tape, dims + 8 * (d - 1), "dim")],
                               offset |-> At(tape, dims + 8 * n + 4, "offset")]]
               ELSE Failed

\* Mutant: a later entry replaces an earlier one.
InsertLast(map, key, val) == (key.text :> val) @@ map

\* unordered_map::insert keeps the first of equal keys.
Insert(map, key, val) ==
  [k \in (DOMAIN map) \cup {key.text} |-> IF k \in DOMAIN map THEN map[k] ELSE val]

-----------------------------------------------------------------------------
\* The accessors.  Each reading of a value has an outcome: what it answers,
\* that std::get throws bad_variant_access, or that it is undefined.

Answers(val) == [how |-> "value", val |-> val]
Throws == [how |-> "threw", val |-> 0]
Undefined == [how |-> "undefined", val |-> 0]

Absent == [dtype |-> "uint8", num |-> 0]     \* Metadata::empty()
GetMetadata(meta, key) == IF key \in DOMAIN meta THEN meta[key] ELSE Absent

\* Metadata::value<T>: a string or an array gives a zero.
Value(v, dtype) ==
  IF v.dtype \notin ScalarTypes THEN Answers(0)
  ELSE IF v.dtype = dtype THEN Answers(v.num) ELSE Throws

\* to_string() of a string, of a scalar, and of an array, which reads 50
\* elements whether they are there or not.
Formatted(dtype, num) == IF dtype = "string" THEN num.text ELSE <<"formatted", dtype, num>>
ValString(v) ==
  IF v.dtype # "array" THEN Answers(Formatted(v.dtype, v.num))
  ELSE IF Len(v.num) < 50 THEN Undefined
  ELSE Answers([j \in 1..50 |-> Formatted(v.elem, v.num[j])])

\* Metadata::val_array<T>: no array gives no elements, and of an array of
\* strings none is a number.
ValArray(v, dtype) ==
  IF v.dtype # "array" THEN Answers(<<>>)
  ELSE IF dtype = "string" THEN Answers([j \in 1..Len(v.num) |-> Formatted(v.elem, v.num[j])])
  ELSE IF v.elem = "string" \/ v.num = <<>> THEN Answers(<<>>)
  ELSE IF v.elem = dtype THEN Answers(v.num) ELSE Throws

\* gguf_file_type_name: the types that have a name of their own.
FileTypes == 0..3 \cup 7..23
FileTypeName(num) == IF num \in FileTypes THEN <<"name", num>> ELSE "UNKNOWN"

\* What the three accessors read, in their order: a key and its type.
Text(key) == [key |-> key, get |-> "text", dtype |-> "string"]
Number(key, dtype) == [key |-> key, get |-> "number", dtype |-> dtype]
TypeName(key) == [key |-> key, get |-> "file_type", dtype |-> "uint32"]
List(key, dtype) == [key |-> key, get |-> "list", dtype |-> dtype]

Info == << Text("general.architecture"), Text("general.version"), Text("general.name"),
           TypeName("general.file_type") >>

ModelConfig == << Number("qwen2.attention.head_count", "uint32"),
                  Number("qwen2.attention.head_count_kv", "uint32"),
                  Number("qwen2.rope.freq_base", "float32"),
                  Number("qwen2.embedding_length", "uint32"),
                  Number("qwen2.block_count", "uint32"),
                  Number("qwen2.attention.layer_norm_rms_epsilon", "float32"),
                  Number("qwen2.context_length", "uint32") >>

TokenizerInfo == << Text("tokenizer.ggml.model"), Text("tokenizer.ggml.pre"),
                    List("tokenizer.ggml.tokens", "string"), List("tokenizer.ggml.merges", "string"),
                    List("tokenizer.ggml.token_type", "int32"),
                    Number("tokenizer.ggml.bos_token_id", "uint32"),
                    Number("tokenizer.ggml.eos_token_id", "uint32"),
                    Number("tokenizer.ggml.padding_token_id", "uint32"),
                    Number("tokenizer.ggml.add_bos_token", "bool"),
                    Text("tokenizer.chat_template") >>

Read(meta, r) ==
  LET v == GetMetadata(meta, r.key)
  IN  CASE r.get = "text" -> ValString(v)
        [] r.get = "number" -> Value(v, r.dtype)
        [] r.get = "list" -> ValArray(v, r.dtype)
        [] r.get = "file_type" ->
             LET num == Value(v, r.dtype) IN [how |-> num.how, val |-> FileTypeName(num.val)]

\* An accessor answers all its readings, or goes the way of the first that
\* does not answer.
Call(meta, reads) ==
  LET bad == SelectInSeq(reads, LAMBDA r : Read(meta, r).how # "value")
  IN  IF bad # 0 THEN Read(meta, reads[bad])
      ELSE Answers([j \in 1..Len(reads) |-> Read(meta, reads[j]).val])

-----------------------------------------------------------------------------
\* Mutant: a full alignment is added to an aligned address.
AlignAddressAlways(ptr, alignment) == ptr + (alignment - (ptr % alignment))

\* align_address
AlignAddress(ptr, alignment) == ptr + ((alignment - (ptr % alignment)) % alignment)

\* general.alignment as align_address() reads it.
Alignment(meta) == Value(GetMetadata(meta, "general.alignment"), "uint8")
AlignmentOrDefault(num) == IF num = 0 THEN 32 ELSE num

=============================================================================
