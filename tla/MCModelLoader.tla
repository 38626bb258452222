---------------------------- MODULE MCModelLoader ----------------------------
(* Instances of ModelLoader for TLC: files with every kind of value, without *)
(* an alignment and with one of each outcome; a whole small model, and ones  *)
(* that lack a tensor or a key, or have it in another type; files with more  *)
(* bytes, entries or tensors than an int can count; and what is no GGUF file.*)
EXTENDS ModelLoader

Str(len, text) == [len |-> len, text |-> text]
KV(key, len, val) == [key |-> Str(len, key), val |-> val]
Scalar(dtype, num) == [dtype |-> dtype, num |-> num]
String(len, text) == Scalar("string", Str(len, text))
Array(elem, elements) == [dtype |-> "array", elem |-> elem, num |-> elements]
Tensor(block, part, dims, offset) == [name |-> Str(9, <<block, part>>), dims |-> dims, offset |-> offset]
Gguf(kvs, entries) == [kind |-> "gguf", kvs |-> kvs, tensors |-> entries]

Name == KV("general.name", 12, String(5, "qwen2"))
FileType(num) == KV("general.file_type", 17, Scalar("uint32", num))
Vocabulary == Array("string", <<Str(2, "ab"), Str(0, "")>>)
Tokens == KV("tokenizer.ggml.tokens", 21, Vocabulary)
Kinds(dtype) == KV("tokenizer.ggml.token_type", 25, Array(dtype, <<1, 3>>))
Empty == KV("tokenizer.ggml.merges", 21, Array("string", <<>>))
Eps == KV("qwen2.eps", 9, Scalar("float64", 0))
Half == KV("qwen2.half", 10, Scalar("int16", 3))
Flag == KV("tokenizer.ggml.add_bos_token", 28, Scalar("bool", 1))
Align(dtype, num) == KV("general.alignment", 17, Scalar(dtype, num))
Ids == << KV("tokenizer.ggml.bos_token_id", 27, Scalar("uint32", 1)),
          KV("tokenizer.ggml.eos_token_id", 27, Scalar("uint32", 2)),
          KV("tokenizer.ggml.padding_token_id", 31, Scalar("uint32", 0)) >>
Texts == << KV("tokenizer.ggml.model", 20, String(4, "gpt2")), KV("tokenizer.ggml.pre", 18, String(5, "qwen2")),
            KV("tokenizer.chat_template", 23, String(9, "template")) >>

\* Two blocks, two heads that share one key, embeddings of four, a context of 5.
Hyper == << KV("qwen2.attention.head_count", 26, Scalar("uint32", 2)),
            KV("qwen2.attention.head_count_kv", 29, Scalar("uint32", 1)),
            KV("qwen2.rope.freq_base", 20, Scalar("float32", 9)),
            KV("qwen2.embedding_length", 22, Scalar("uint32", 4)),
            KV("qwen2.block_count", 17, Scalar("uint32", 2)),
            KV("qwen2.attention.layer_norm_rms_epsilon", 38, Scalar("float32", 1)),
            KV("qwen2.context_length", 20, Scalar("uint32", 5)) >>
Block(b) == << Tensor(b, "attn_q.weight", <<4, 4>>, 0), Tensor(b, "attn_q.bias", <<4>>, 64),
               Tensor(b, "attn_k.weight", <<4, 2>>, 96), Tensor(b, "attn_v.weight", <<4, 2>>, 128),
               Tensor(b, "attn_output.weight", <<4, 4>>, 160), Tensor(b, "attn_norm.weight", <<4>>, 192),
               Tensor(b, "ffn_gate.weight", <<4, 3>>, 224), Tensor(b, "ffn_up.weight", <<4, 3>>, 256),
               Tensor(b, "ffn_down.weight", <<3, 4>>, 288) >>
Embedding == Tensor(-1, "token_embd.weight", <<4, 6>>, 320)
Output == Tensor(-1, "output.weight", <<4, 6>>, 384)

\* The j-th entry with another value.
With(kvs, j, val) == [kvs EXCEPT ![j].val = val]
Long(len) == KV("general.description", 19, String(len, "long"))
Numbers(n) == KV("general.numbers", 15, Array("uint64", [j \in 1..n |-> j]))
Flags(n) == [j \in 1..n |-> KV("b", 1, Scalar("bool", 1))]
Vectors(n) == [j \in 1..n |-> Tensor(j, "vector", <<1>>, 32 * j)]

\* The entries of string_alignment end at an aligned offset.
MCContent ==
  [whole |-> Gguf(Hyper, Block(0) \o Block(1) \o <<Embedding, Output>>),
   tied |-> Gguf(Hyper, <<Embedding>> \o Block(0) \o Block(1)),
   vocabulary |-> Gguf(Texts \o <<Tokens, Empty, Kinds("int32")>> \o Ids \o <<Flag>>, <<>>),
   keyless |-> Gguf(<<Name, Tokens, Kinds("uint32"), Eps, FileType(7)>>, <<Embedding>>),
   twice |-> Gguf(<<Align("uint8", 64), Name, Flag, Align("uint8", 16),
                    KV("general.name", 12, String(4, "last")), FileType(5)>>, <<Tensor(0, "vector", <<1>>, 0)>>),
   scalar |-> Gguf(<<Name>>, <<Tensor(0, "scalar", <<>>, 0)>>),
   other_types |-> Gguf(With(Hyper, 7, Scalar("int32", 5)) \o <<KV("general.file_type", 17, String(1, "7"))>>, <<Output>>),
   no_number |-> Gguf(With(Hyper, 3, Vocabulary), <<Output>>),
   long_string |-> Gguf(<<Long(64), Name>>, <<Output>>),
   long_array |-> Gguf(<<Numbers(16), Name>>, <<Output>>),
   many_entries |-> Gguf(Flags(65), <<>>),
   many_tensors |-> Gguf(<<>>, Vectors(65)),
   string_alignment |-> Gguf(<<Flag, Half, KV("general.alignment", 17, String(18, "thirty-two of them")), Tokens>>, <<Output>>),
   format_alignment |-> Gguf(<<Name, Align("uint32", 32)>>, <<Output>>),
   array_name |-> Gguf(<<Align("uint8", 8), KV("general.name", 12, Vocabulary)>>, <<Output>>),
   text |-> [kind |-> "other", kvs |-> <<>>, tensors |-> <<>>],
   short |-> [kind |-> "short", kvs |-> <<>>, tensors |-> <<>>]]
MCFiles == DOMAIN MCContent

=============================================================================
