----------------------------- MODULE ModelLoader -----------------------------
(***************************************************************************)
(* Model::load and Model::unload (src/src/models/models.cpp) with the GGUF  *)
(* parser they call (src/src/model_loader/gguf), the resources they hold    *)
(* (the file descriptor, the mappings, the loader and the model) and what   *)
(* the loaded model answers: its accessors, and the graph it builds.        *)
(*                                                                         *)
(* open, fstat and mmap are external and may each fail; the files are well  *)
(* formed, or no GGUF files at all.                                         *)
(***************************************************************************)
EXTENDS GGUF, Layers

CONSTANTS Files,      \* the names of the model files there are
          Content,    \* what is in them
          Bases,      \* the addresses mmap may return
          Batches,    \* the sizes of the batches that graphs are built for
          MaxLoads    \* bound on the calls of load()

Page == 4096

\* The value of the first entry of a key.
Keys(f) == {f.kvs[j].key.text : j \in 1..Len(f.kvs)}
FirstEntry(f, key) == f.kvs[SelectInSeq(f.kvs, LAMBDA kv : kv.key.text = key)].val
FirstEntries(f) == [key \in Keys(f) |-> FirstEntry(f, key)]

ASSUME LoaderAssumption ==
  /\ IntLimit \in Nat \ {0}
  /\ \A f \in Files :
       /\ Content[f].kind \in {"gguf", "other", "short"}
       /\ IsFile(Content[f])
       /\ LET alignment == AlignmentOrDefault(Alignment(FirstEntries(Content[f])).val)
          IN  alignment \in 1..Page /\ Page % alignment = 0
  /\ \A b \in Bases : b \in Nat /\ b % Page = 0
  /\ Batches \subseteq Nat
  /\ MaxLoads \in Nat

Tapes == [f \in Files |-> Tape(Content[f])]

\* The files whose entries an int can count.
FilesWithinInt == {f \in Files : WithinInt(Content[f])}

VARIABLES pc,         \* the step of load(), or "idle", "crashed", "garbage"
          file,       \* the file being loaded
          fd,         \* whether fd_guard holds an open descriptor
          maps,       \* the regions that are mapped, by the number of the load
          base,       \* base_ptr
          cur,        \* cur, as an offset from base_ptr
          parsed,     \* how many metadata and tensor entries were read
          metadata,   \* metadata of the GGUFLoader
          tensors,    \* tensors of the GGUFLoader
          tensorBase, \* tensor_base_ptr_
          instance,   \* instance_, or NoModel
          answer,     \* what the last call to the model answered
          loads,      \* how many calls of load() there were
          result,     \* how the last call of load() ended
          before,     \* history: instance_ when the call began
          thrown      \* history: a call has ended with an exception

parser == <<base, cur, parsed, metadata, tensors, tensorBase>>
outcome == <<fd, result, thrown>>
model == <<instance, answer>>
vars == <<pc, file, maps, parser, outcome, model, loads, before>>

NoModel == [map |-> 0, base |-> 0, meta |-> <<>>, tensors |-> <<>>, file |-> "none"]
NoAnswer == [call |-> "none", how |-> "value", val |-> 0]

\* The accessors of the model.
Accessors == [info |-> Info, config |-> ModelConfig, tokenizer_info |-> TokenizerInfo]

TypeOK ==
  /\ pc \in {"idle", "stat", "magic", "map", "metadata", "tensors", "install",
            "crashed", "garbage"}
  /\ file \in Files
  /\ fd \in BOOLEAN
  /\ maps \subseteq 1..MaxLoads
  /\ base \in Nat /\ cur \in Int /\ parsed \in Nat /\ tensorBase \in Nat
  /\ \A key \in DOMAIN metadata : metadata[key].dtype \in Types
  /\ instance.map \in 0..MaxLoads /\ before.map \in 0..MaxLoads
  /\ answer.call \in DOMAIN Accessors \cup {"build_graph", "none"}
  /\ answer.how \in {"value", "threw", "undefined", "crashed"}
  /\ loads \in 0..MaxLoads
  /\ result \in {"none", "loaded", "false", "threw"}
  /\ thrown \in BOOLEAN

Init ==
  /\ pc = "idle"
  /\ file \in Files
  /\ fd = FALSE
  /\ maps = {}
  /\ base = 0 /\ cur = 0 /\ parsed = 0 /\ metadata = <<>> /\ tensors = <<>> /\ tensorBase = 0
  /\ instance = NoModel /\ before = NoModel /\ answer = NoAnswer
  /\ loads = 0
  /\ result = "none"
  /\ thrown = FALSE

\* load() returns or throws: fd_guard closes the descriptor.
Leave(how) ==
  /\ pc' = "idle"
  /\ fd' = FALSE
  /\ result' = how
  /\ thrown' = (thrown \/ how = "threw")

GoOn(step) == pc' = step /\ UNCHANGED outcome

-----------------------------------------------------------------------------
\* Mutant: the old model is dropped before the new one is known to load.
WhileLoadingNone == NoModel

\* instance_ until load_gguf_file has returned.
WhileLoading == instance

\* load() up to open().
Load ==
  /\ pc = "idle"
  /\ loads < MaxLoads
  /\ loads' = loads + 1
  /\ file' \in Files
  /\ before' = instance
  /\ instance' = WhileLoading
  /\ answer' = NoAnswer
  /\ \/ fd' = TRUE /\ pc' = "stat" /\ UNCHANGED <<result, thrown>>
     \/ Leave("false")
  /\ UNCHANGED <<maps, parser>>

Stat ==
  /\ pc = "stat"
  /\ GoOn("magic") \/ Leave("false")
  /\ UNCHANGED <<file, maps, parser, model, loads, before>>

\* is_gguf_file: of a file shorter than the magic number, bytes that were
\* never written are compared.
CheckMagic ==
  /\ pc = "magic"
  /\ \/ Content[file].kind \in {"gguf", "short"} /\ GoOn("map")
     \/ Content[file].kind \in {"other", "short"} /\ Leave("false")
  /\ UNCHANGED <<file, maps, parser, model, loads, before>>

\* load_gguf_file up to the first entry.  When mmap fails, the null pointer
\* becomes the loader of a new model, whose constructor dereferences it.
Map ==
  /\ pc = "map"
  /\ \/ /\ maps' = maps \cup {loads}
        /\ base' \in Bases
        /\ cur' = Header.width
        /\ parsed' = 0 /\ metadata' = <<>> /\ tensors' = <<>> /\ tensorBase' = 0
        /\ GoOn("metadata")
     \/ GoOn("crashed") /\ UNCHANGED <<maps, parser>>
  /\ UNCHANGED <<file, model, loads, before>>

\* metadata_kv_count of the header, which gguf_metadata takes as an int.
KvCount == ToInt(Len(Content[file].kvs))

\* One iteration of gguf_metadata.
ParseMetadata ==
  /\ pc = "metadata"
  /\ parsed < KvCount
  /\ LET met == MetadataFromPtr(Tapes[file], cur)
     IN  IF met.ok
         THEN /\ cur' = cur + met.size
              /\ parsed' = parsed + 1
              /\ metadata' = Insert(metadata, met.key, met.val)
              /\ UNCHANGED pc
         ELSE pc' = "garbage" /\ UNCHANGED <<cur, parsed, metadata>>
  /\ UNCHANGED <<file, maps, base, tensors, tensorBase, outcome, model, loads, before>>

MetadataEnd ==
  /\ pc = "metadata"
  /\ parsed >= KvCount
  /\ parsed' = 0
  /\ pc' = "tensors"
  /\ UNCHANGED <<file, maps, base, cur, metadata, tensors, tensorBase, outcome, model, loads, before>>

\* One iteration of gguf_tensors_info.
ParseTensorInfo ==
  /\ pc = "tensors"
  /\ parsed < Len(Content[file].tensors)
  /\ LET t == TensorInfoFromPtr(Tapes[file], cur)
     IN  IF t.ok
         THEN /\ cur' = cur + t.size
              /\ parsed' = parsed + 1
              /\ tensors' = Insert(tensors, t.name, t.info)
              /\ UNCHANGED pc
         ELSE pc' = "garbage" /\ UNCHANGED <<cur, parsed, tensors>>
  /\ UNCHANGED <<file, maps, base, metadata, tensorBase, outcome, model, loads, before>>

\* Mutant: the mapping is released when load_gguf_file returns.
SetMappedMemoryReleased == maps \ {loads}

\* The loader becomes the owner of the mapping, which stays.
SetMappedMemory == maps

\* set_tensor_base_ptr, which may throw out of load(), and set_mapped_memory.
\* The loop before them counts the entries with an int: when that overflows, it
\* goes on or, if it wraps and is compared as a large number, ends.
SetTensorBasePtr ==
  /\ pc = "tensors"
  /\ parsed \in {Len(Content[file].tensors), IntLimit}
  /\ IF Alignment(metadata).how = "threw"
     THEN Leave("threw") /\ UNCHANGED <<tensorBase, maps>>
     ELSE /\ tensorBase' = AlignAddress(base + cur, AlignmentOrDefault(Alignment(metadata).val))
          /\ maps' = SetMappedMemory
          /\ GoOn("install")
  /\ UNCHANGED <<file, base, cur, parsed, metadata, tensors, model, loads, before>>

\* load_tensors, which points every tensor into the mapping (or copies it to
\* the device of another backend).
LoadTensors ==
  [name \in DOMAIN tensors |->
     [dims |-> tensors[name].dims, data |-> tensorBase + tensors[name].offset]]

\* ggml_new_tensor asserts that a tensor has one to four dimensions.
CanCreateTensors == \A name \in DOMAIN tensors : Len(tensors[name].dims) \in 1..4

\* Mutant: the old model is not destroyed.
MapsAfterReplaceAll == maps

\* Replacing or resetting instance_ destroys the old model with its loader,
\* which unmaps its file.
MapsAfterReplace == maps \ {instance.map}

\* instance_ is replaced, the model takes the loader and creates its tensors,
\* and load() returns true.
Install ==
  /\ pc = "install"
  /\ \/ /\ CanCreateTensors
        /\ maps' = MapsAfterReplace
        /\ instance' = [map |-> loads, base |-> base, meta |-> metadata, tensors |-> LoadTensors,
                        file |-> file]
        /\ Leave("loaded")
     \/ /\ ~CanCreateTensors
        /\ GoOn("crashed")
        /\ UNCHANGED <<maps, instance>>
  /\ UNCHANGED <<file, parser, answer, loads, before>>

Unload ==
  /\ pc = "idle"
  /\ instance # NoModel
  /\ maps' = MapsAfterReplace
  /\ instance' = NoModel
  /\ answer' = NoAnswer
  /\ UNCHANGED <<pc, file, parser, outcome, loads, before>>

\* info(), config() and tokenizer_info() of the model; what reads beyond an
\* array may end the process.
CallAccessor ==
  /\ pc = "idle"
  /\ instance # NoModel
  /\ \E call \in DOMAIN Accessors :
       LET read == Call(instance.meta, Accessors[call])
       IN  /\ answer' = [call |-> call, how |-> read.how, val |-> read.val]
           /\ pc' \in {"idle"} \cup IF read.how = "undefined" THEN {"crashed"} ELSE {}
  /\ UNCHANGED <<file, maps, parser, outcome, instance, loads, before>>

\* model_config() as build_graph() uses it.
Config(val) ==
  [nheads |-> val[1], nkv |-> val[2], embedding_dim |-> val[4], n_blocks |-> val[5],
   max_context_len |-> val[7]]

\* The first part of Inference::predict for a batch of n tokens: config(),
\* which may throw, and build_graph().
Predict ==
  /\ pc = "idle"
  /\ instance # NoModel
  /\ \E n \in Batches :
       LET read == Call(instance.meta, ModelConfig)
           out == BuildGraph(instance.tensors, Config(read.val), n)
       IN  IF read.how # "value"
           THEN answer' = [call |-> "build_graph", how |-> read.how, val |-> <<n, Null>>] /\ UNCHANGED pc
           ELSE /\ answer' = [call |-> "build_graph", how |-> IF out = Null THEN "crashed" ELSE "value",
                              val |-> <<n, out>>]
                /\ pc' = IF out = Null THEN "crashed" ELSE "idle"
  /\ UNCHANGED <<file, maps, parser, outcome, instance, loads, before>>

Next ==
  \/ Load \/ Stat \/ CheckMagic \/ Map \/ ParseMetadata \/ MetadataEnd \/ ParseTensorInfo
  \/ SetTensorBasePtr \/ Install \/ Unload \/ CallAccessor \/ Predict

Spec == Init /\ [][Next]_vars

-----------------------------------------------------------------------------
\* The parser advances "by the exact number of bytes consumed" (README.md:145):
\* it never reads a field at a place where another one lies, and has read the
\* whole of the entries, and nothing behind them, when it looks for the tensors.
\* So it is in a file whose entries an int can count; of a longer one, size()
\* and kv_count are what is left of the numbers in an int (metadata.cpp:105,
\* 129-136 and 169, gguf.cpp:27).
InStep ==
  file \in FilesWithinInt => pc # "garbage" /\ (pc = "install" => cur = Tapes[file].end)

\* Every tensor of the model lies where its file has it: at its offset from the
\* first aligned address behind the tensor entries (gguf.cpp:117-128); of a file
\* whose entries an int can count.
TensorsInPlace ==
  instance # NoModel /\ instance.file \in FilesWithinInt =>
    LET f == Content[instance.file]
        alignment == AlignmentOrDefault(Alignment(FirstEntries(f)).val)
        end == Tapes[instance.file].end
        data == CHOOSE p \in end..(end + alignment - 1) : p % alignment = 0
    IN  \A j \in 1..Len(f.tensors) :
          instance.tensors[f.tensors[j].name.text].data = instance.base + data + f.tensors[j].offset

\* The tensors of the model never point into a file that is not mapped,
\* through any sequence of load(), failed load() and unload().
NoDanglingTensors == instance # NoModel => instance.map \in maps

\* A call of load() that does not return true leaves the model as it was.
FailedLoadKeepsModel ==
  [][ (pc # "idle" \/ loads' # loads) /\ pc' = "idle" /\ result' # "loaded"
        => instance' = before' ]_vars

\* "This guarantees cleanup on scope exit, including during exceptions"
\* (README.md:166, of file descriptors and mmap regions): between the calls
\* only the file of the model is mapped and no descriptor is open.
Released == ~fd /\ maps = {instance.map} \ {0}
CleanupOnScopeExit == pc = "idle" => Released

\* The same, as long as no call has ended with an exception.
CleanupOnReturn == pc = "idle" /\ ~thrown => Released

\* The accessors tell what the file says, through any sequence of load() and
\* unload(): the value of the first entry of each key (gguf.cpp:88-160).  They
\* answer when the file has every key in the type they ask for.  For a number
\* that is missing, or is a number of another type, they do not answer, and
\* throw when no text is an array (whose to_string may read beyond its end
\* first).  A string or an array in the place of a number is not refused: it
\* reads as 0 (metadata.h:159-164).  All this of a file whose entries an int
\* can count.
HasAs(f, r) ==
  /\ r.key \in Keys(f)
  /\ LET v == FirstEntry(f, r.key)
     IN  IF r.get = "list" THEN v.dtype = "array" /\ v.elem = r.dtype ELSE v.dtype = r.dtype
AsksNumber(r) == r.get \in {"number", "file_type"}
WrongNumber(f, r) ==
  r.key \in Keys(f) => FirstEntry(f, r.key).dtype \in ScalarTypes \ {r.dtype}
NoNumber(f, r) == r.key \in Keys(f) /\ FirstEntry(f, r.key).dtype \in {"string", "array"}
ArrayAsText(f, r) ==
  r.get = "text" /\ r.key \in Keys(f) /\ FirstEntry(f, r.key).dtype = "array"
Zero(r) == IF r.get = "file_type" THEN FileTypeName(0) ELSE 0
AnswersFromFile ==
  answer.call \in DOMAIN Accessors /\ instance.file \in FilesWithinInt =>
    LET f == Content[instance.file]
        reads == Accessors[answer.call]
    IN  /\ answer.how = "value" =>
             \A j \in 1..Len(reads) :
               /\ HasAs(f, reads[j]) => answer.val[j] = Read(FirstEntries(f), reads[j]).val
               /\ AsksNumber(reads[j]) => ~WrongNumber(f, reads[j])
               /\ AsksNumber(reads[j]) /\ NoNumber(f, reads[j]) => answer.val[j] = Zero(reads[j])
        /\ (\A j \in 1..Len(reads) : HasAs(f, reads[j])) => answer.how = "value"
        /\ (\A j \in 1..Len(reads) : ~ArrayAsText(f, reads[j])) => answer.how \in {"value", "threw"}

\* A graph that is built has a row of logits for every token of the batch, as
\* the assertion in predict() wants it (inference.cpp:131), and a file with the
\* tensors of its configuration, and entries that an int can count, gives one,
\* with or without biases and norms.
Blocks(c) == 0..(c.n_blocks - 1)
HasTensor(f, name, dims) ==
  \E j \in 1..Len(f.tensors) : f.tensors[j].name.text = name /\ f.tensors[j].dims = dims
MayHaveTensor(f, name, dims) ==
  \A j \in 1..Len(f.tensors) : f.tensors[j].name.text = name => f.tensors[j].dims = dims
QwenConfig(c) ==
  /\ c.nheads > 0 /\ c.nkv > 0 /\ c.embedding_dim > 0
  /\ c.embedding_dim % c.nheads = 0 /\ c.nheads % c.nkv = 0
QwenTensors(f, c, vocab, ff) ==
  LET dim == c.embedding_dim
      kv == (dim \div c.nheads) * c.nkv
  IN  /\ HasTensor(f, <<-1, "token_embd.weight">>, <<dim, vocab>>)
      /\ HasTensor(f, <<-1, "output.weight">>, <<dim, vocab>>)
      /\ MayHaveTensor(f, <<-1, "output_norm.weight">>, <<dim>>)
      /\ \A b \in Blocks(c) :
           /\ \A part \in {"attn_q.weight", "attn_output.weight"} :
                HasTensor(f, <<b, part>>, <<dim, dim>>)
           /\ \A part \in {"attn_k.weight", "attn_v.weight"} : HasTensor(f, <<b, part>>, <<dim, kv>>)
           /\ \A part \in {"ffn_gate.weight", "ffn_up.weight"} : HasTensor(f, <<b, part>>, <<dim, ff>>)
           /\ HasTensor(f, <<b, "ffn_down.weight">>, <<ff, dim>>)
           /\ \A part \in {"attn_norm.weight", "attn_q.bias", "ffn_norm.weight"} :
                MayHaveTensor(f, <<b, part>>, <<dim>>)
           /\ \A part \in {"attn_k.bias", "attn_v.bias"} : MayHaveTensor(f, <<b, part>>, <<kv>>)
GraphFitsModel ==
  answer.call = "build_graph" /\ instance.file \in FilesWithinInt =>
    LET f == Content[instance.file]
        c == Config(Call(FirstEntries(f), ModelConfig).val)
        n == answer.val[1]
        out == answer.val[2]
        Dims(part) == {f.tensors[j].dims[2] : j \in {k \in 1..Len(f.tensors) :
                                                        f.tensors[k].name.text[2] = part}}
    IN  /\ answer.how = "value" => out[2] = n
        /\ answer.how # "threw" /\ n > 0 =>
             \A vocab \in Dims("output.weight"), ff \in Dims("ffn_up.weight") :
               ff > 0 /\ QwenConfig(c) /\ QwenTensors(f, c, vocab, ff)
                 => answer.how = "value" /\ out = <<vocab, n, 1>>

=============================================================================
