------------------------------- MODULE Layers -------------------------------
(***************************************************************************)
(* The compute graph that QwenModel::build_graph makes of the layers        *)
(* (src/src/models/qwen/model.cpp, src/src/layers), by the shapes of its    *)
(* tensors.                                                                 *)
(*                                                                         *)
(* A tensor is its shape <<ne[0], ne[1], ne[2]>>; Null is the null pointer  *)
(* that get_tensor_() answers for a name it does not have, and what is      *)
(* left when an operation gets one or an assertion of ggml fails.  ggml is  *)
(* external: of its operations, the assertions and the shape of the result. *)
(* The KV cache is taken as the attention layer uses it: it answers one     *)
(* tensor for all positions of the context.                                 *)
(***************************************************************************)
EXTENDS Integers, Sequences

Null == <<>>
Shape(dims) == [d \in 1..3 |-> IF d <= Len(dims) THEN dims[d] ELSE 1]
Elements(a) == a[1] * a[2] * a[3]

\* ggml_mul_mat, ggml_add and ggml_mul, ggml_reshape, ggml_permute of 1 and 2,
\* ggml_rope_ext, ggml_get_rows, ggml_flash_attn_ext
MulMat(a, b) ==
  IF a # Null /\ b # Null /\ a[1] = b[1] /\ b[3] % a[3] = 0 THEN <<a[2], b[2], b[3]>> ELSE Null
Add(a, b) ==
  IF a # Null /\ b # Null /\ \A d \in 1..3 : b[d] # 0 /\ a[d] % b[d] = 0 THEN a ELSE Null
Reshape(a, dims) == IF a # Null /\ Elements(a) = Elements(dims) THEN dims ELSE Null
Permute(a) == IF a # Null THEN <<a[1], a[3], a[2]>> ELSE Null
Rope(a, positions) == IF a # Null /\ a[3] = positions[1] THEN a ELSE Null
GetRows(a, rows) == IF a # Null THEN <<a[1], rows[1], 1>> ELSE Null
FlashAttn(q, k, v, mask) ==
  IF q # Null /\ k[1] = q[1] /\ q[3] % k[3] = 0 /\ mask[1] = k[2] /\ mask[2] >= q[2]
  THEN <<v[1], q[3], q[2]>> ELSE Null

-----------------------------------------------------------------------------
\* Layer::operator(), before and after forward(): the norm is left out without
\* its weight, and blocks add what they were given.
PreNorm(x, gamma) == IF gamma # Null THEN Add(x, gamma) ELSE x
Residual(out, x) == Add(out, x)

\* A bias is left out when the file has none.
Biased(x, bias) == IF bias # Null THEN Add(x, bias) ELSE x

\* Mutant: keys have as many heads as queries.
KvHeadsAsQuery(cfg) == cfg.nheads

KvHeads(cfg) == cfg.nkv

\* What KVCache::get_slice answers for a block.
Slice(cfg) == <<cfg.embedding_dim \div cfg.nheads, cfg.max_context_len, cfg.nkv>>

\* GroupedAttentionHead::forward; w has the tensors of the block.
GroupedAttention(x, w, cfg, positions, mask) ==
  LET Q == Biased(MulMat(w["attn_q.weight"], x), w["attn_q.bias"])
      K == Biased(MulMat(w["attn_k.weight"], x), w["attn_k.bias"])
      V == Biased(MulMat(w["attn_v.weight"], x), w["attn_v.bias"])
      dHead == x[1] \div cfg.nheads
      Qcur == Permute(Rope(Reshape(Q, <<dHead, cfg.nheads, x[2]>>), positions))
      Kcur == Rope(Reshape(K, <<dHead, KvHeads(cfg), x[2]>>), positions)
      Vcur == Reshape(V, <<dHead, KvHeads(cfg), x[2]>>)
      KQV == FlashAttn(Qcur, Slice(cfg), Slice(cfg), mask)
  IN  IF x = Null \/ Kcur = Null \/ Vcur = Null THEN Null
      ELSE MulMat(w["attn_output.weight"], Reshape(KQV, <<x[1], x[2], 1>>))

\* SwigLU::forward
SwigLU(x, w) ==
  LET gate == MulMat(w["ffn_gate.weight"], x)
      up == MulMat(w["ffn_up.weight"], x)
  IN  MulMat(w["ffn_down.weight"], Add(gate, up))

\* TokenEmbedding::forward and TokenUnembedding::forward
TokenEmbedding(x, emb) == GetRows(emb, x)
TokenUnembedding(x, unemb) == MulMat(unemb, x)

\* The tensors of a model are named <<block, part>>; those outside of the
\* blocks have the block -1.
Parts ==
  {"token_embd.weight", "output.weight", "output_norm.weight",
   "attn_norm.weight", "attn_q.weight", "attn_q.bias", "attn_k.weight", "attn_k.bias",
   "attn_v.weight", "attn_v.bias", "attn_output.weight",
   "ffn_norm.weight", "ffn_gate.weight", "ffn_up.weight", "ffn_down.weight"}
GetTensor(tensors, block, part) ==
  IF <<block, part>> \in DOMAIN tensors THEN Shape(tensors[<<block, part>>].dims) ELSE Null
Weights(tensors, block) == [part \in Parts |-> GetTensor(tensors, block, part)]

CreateInputTensors(n, maxLen) ==
  [input |-> <<n, 1, 1>>, positions |-> <<n, 1, 1>>, mask |-> <<maxLen, n, 1>>]

\* The two layers of a block.
AttentionLayer(x, w, cfg, inputs) ==
  Residual(GroupedAttention(PreNorm(x, w["attn_norm.weight"]), w, cfg, inputs.positions, inputs.mask), x)
FeedForwardLayer(x, w) == Residual(SwigLU(PreNorm(x, w["ffn_norm.weight"]), w), x)
TransformerBlock(x, w, cfg, inputs) == FeedForwardLayer(AttentionLayer(x, w, cfg, inputs), w)

\* The blocks, one after the other.
ThroughBlocks(tensors, cfg, inputs) ==
  LET after[b \in 0..cfg.n_blocks] ==
        IF b = 0 THEN TokenEmbedding(inputs.input, Weights(tensors, -1)["token_embd.weight"])
        ELSE TransformerBlock(after[b - 1], Weights(tensors, b - 1), cfg, inputs)
  IN  after[cfg.n_blocks]

\* build_graph for a batch of n tokens.
BuildGraph(tensors, cfg, n) ==
  LET x == ThroughBlocks(tensors, cfg, CreateInputTensors(n, cfg.max_context_len))
      w == Weights(tensors, -1)
  IN  TokenUnembedding(PreNorm(x, w["output_norm.weight"]), w["output.weight"])

=============================================================================
