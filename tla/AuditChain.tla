----------------------------- MODULE AuditChain -----------------------------
\* mcp/src/tools/verify-audit-chain.ts over canonical-json: the verdict on an
\* evidence pack.  A pack is a record of
\*   object      whether the text is a JSON object at all
\*   workspace, rows, batches, rest      what is signed: rows [seq, kind, payload,
\*               hash, prev, extra], of which extra (createdAt) is not hashed; batches
\*               [root, signature]; and the rest of the pack
\*   manifest, signature, key      the block that is not: the hash of the rest, its
\*               signature and, from version 1.1, the public key
\* A field that is not there is Absent.  Hashes and signatures are terms, so that
\* two are equal only if they are made of equal things.  A text that the code decodes
\* (seq, hash, prev, root, signature) is a value under a spelling: two spellings of
\* a value are equal once decoded, and different texts.
EXTENDS Integers, Sequences, FiniteSets, FiniteSetsExt

CONSTANTS Absent,   \* what is not there
          Exported  \* the pack as it left the writer

\* canonicalize: equal texts for equal values.  Minus zero is written as zero; a
\* number that does not fit a double is read as infinity and refused, and so is a
\* field that is not there.
Canonical(value) == IF value = "-0" THEN "0" ELSE value
Infinite == "1e999"

\* Buffer.from(text, "hex") takes either case and drops what is no hex at the end,
\* and base64 has more than one spelling too; Number takes "1" and "01" for 1, and what
\* is no number is written as null, as if it were not there.
Decoded(text) == IF text = Absent THEN Absent ELSE text.value
\* digest.toString("hex") has one.
Hex(digest) == [value |-> digest, as |-> "lower"]

Digest(before, content) ==
  IF before = Absent THEN <<"sha256", content>> ELSE <<"sha256", before, content>>
Content(pack, i) ==
  <<pack.workspace, pack.rows[i].kind, Canonical(pack.rows[i].payload), pack.rows[i].seq>>
Text(row) ==
  [f \in DOMAIN row |-> IF f \in {"payload", "extra"} THEN Canonical(row[f]) ELSE row[f]]
Manifest(pack) ==
  <<"sha256", pack.workspace,
    [i \in DOMAIN pack.rows |-> Text(pack.rows[i])], pack.batches, Canonical(pack.rest)>>

Sign(key, digest) == [by |-> key, of |-> digest]

\* A row holds after its predecessor: the first one has none.
Before(pack, i) == IF i = 1 THEN Absent ELSE Decoded(pack.rows[i - 1].hash)
\* Mutant: a row vouches for its own predecessor.
RowIgnoresPrev(pack, i) ==
  pack.rows[i].hash = Hex(Digest(Decoded(pack.rows[i].prev), Content(pack, i)))
RowHolds(pack, i) ==
  /\ Decoded(pack.rows[i].prev) = Before(pack, i)
  /\ pack.rows[i].hash = Hex(Digest(Before(pack, i), Content(pack, i)))

\* The walk ends at the first row that does not hold.
Breaks(pack) == {i \in DOMAIN pack.rows : ~RowHolds(pack, i)}
Walked(pack) == IF Breaks(pack) = {} THEN DOMAIN pack.rows ELSE 1..Min(Breaks(pack))
BrokenAtRow(pack) == IF Breaks(pack) = {} THEN Absent ELSE Decoded(pack.rows[Min(Breaks(pack))].seq)

\* What is thrown at: infinity anywhere, a field missing in a row that the walk
\* comes to, a key that is none, a batch without a root.
Throws(pack) ==
  \/ pack.rest = Infinite
  \/ \E i \in DOMAIN pack.rows :
       Infinite \in {pack.rows[i].kind, pack.rows[i].payload, pack.rows[i].extra}
  \/ \E i \in Walked(pack) : Absent \in {pack.workspace, pack.rows[i].kind, pack.rows[i].payload, pack.rows[i].seq}
  \/ pack.key = "malformed"
  \/ pack.key # Absent /\ \E i \in DOMAIN pack.batches : pack.batches[i].root = Absent

Signs(signature, key, digest) == Decoded(signature) = Sign(key, digest)
VerifiedSignatures(pack) ==
  IF pack.key = Absent THEN 0
  ELSE Cardinality({i \in DOMAIN pack.batches :
                      Signs(pack.batches[i].signature, pack.key, Decoded(pack.batches[i].root))})
         + (IF Signs(pack.signature, pack.key, Manifest(pack)) THEN 1 ELSE 0)

AuditError(pack) ==
  CASE ~pack.object -> "invalid_pack_json"
    [] pack.manifest = Absent /\ pack.signature = Absent -> "no_signature_block"
    [] pack.manifest = Absent \/ pack.signature = Absent -> "signature_block_missing_required_fields"
    [] Throws(pack) -> "internal_error"
    [] OTHER -> "none"

\* Without a key there is nothing to verify, which counts as verified.
Valid(pack) ==
  /\ Breaks(pack) = {}
  /\ pack.manifest = Manifest(pack)
  /\ pack.key # Absent => VerifiedSignatures(pack) = Len(pack.batches) + 1

AuditVerdict(pack) ==
  IF AuditError(pack) # "none" THEN [error |-> AuditError(pack)]
  ELSE [error |-> "none", valid |-> Valid(pack), brokenAt |-> BrokenAtRow(pack),
        verified |-> VerifiedSignatures(pack)]

-----------------------------------------------------------------------------
\* A pack whose rows are a list of rows, and whose batches are a list.
Shaped(pack) ==
  /\ Len(pack.rows) \in Nat /\ Len(pack.batches) \in Nat
  /\ DOMAIN pack.batches = 1..Len(pack.batches)
  /\ pack.rows =
       [i \in 1..Len(pack.rows) |->
          [seq |-> pack.rows[i].seq, kind |-> pack.rows[i].kind, payload |-> pack.rows[i].payload,
           hash |-> pack.rows[i].hash, prev |-> pack.rows[i].prev, extra |-> pack.rows[i].extra]]

\* The writer numbers the rows and chains them, and signs the batches and the whole
\* with one key.
ASSUME ExportedAssumption ==
  /\ Shaped(Exported)
  /\ \A i \in DOMAIN Exported.rows : RowHolds(Exported, i) /\ Before(Exported, i + 1) # Absent
  /\ \A i, j \in DOMAIN Exported.rows : Exported.rows[i].seq = Exported.rows[j].seq => i = j
  /\ Exported.key # Absent
  /\ \A i \in DOMAIN Exported.batches :
       Signs(Exported.batches[i].signature, Exported.key, Decoded(Exported.batches[i].root))
  /\ Exported.manifest = Manifest(Exported)
  /\ Signs(Exported.signature, Exported.key, Manifest(Exported))

\* Nobody but the writer signs with the writer's key, and a key in a pack is it.
Unforged(pack) ==
  /\ pack.key \in {Exported.key, Absent, "malformed"}
  /\ Signs(pack.signature, Exported.key, Manifest(pack)) =>
       Decoded(pack.signature) = Decoded(Exported.signature)

\* What became of the exported pack, seen without any hash.  The chain is made of a
\* part of each row only, and takes prev in any spelling.
Chained(row) == <<row.seq, row.kind, Canonical(row.payload), row.hash, Decoded(row.prev)>>
SameRow(pack, i) ==
  /\ i \in DOMAIN Exported.rows /\ pack.workspace = Exported.workspace
  /\ Chained(pack.rows[i]) = Chained(Exported.rows[i])
Changed(pack) == {i \in DOMAIN pack.rows : ~SameRow(pack, i)}
SameText(pack) ==
  /\ pack.workspace = Exported.workspace /\ pack.batches = Exported.batches
  /\ Canonical(pack.rest) = Canonical(Exported.rest)
  /\ Len(pack.rows) = Len(Exported.rows)
  /\ \A i \in DOMAIN pack.rows : Text(pack.rows[i]) = Text(Exported.rows[i])
Rehashed(pack) ==
  \E i \in DOMAIN pack.rows : \A j \in DOMAIN Exported.rows :
    Decoded(pack.rows[i].hash) # Decoded(Exported.rows[j].hash)

\* The verdict on a pack that nobody but the holder of the key could sign.  With the
\* key in it, or with the manifest hash it was exported with, only the exported text
\* is valid.  With neither, rows may be cut off at the end or hashed anew, and what the
\* chain is not made of may be anything: the spelling of prev, createdAt, the batches,
\* the rest of the pack.  Any other change is found at the first row it touches.
VerdictIsExact(pack, verdict) ==
  verdict.error = "none" =>
    /\ verdict.valid /\ (pack.key # Absent \/ pack.manifest = Exported.manifest) => SameText(pack)
    /\ verdict.valid /\ ~Rehashed(pack) => Changed(pack) = {}
    /\ (/\ SameText(pack) /\ pack.manifest = Exported.manifest
        /\ Decoded(pack.signature) = Decoded(Exported.signature)) => verdict.valid
    /\ ~Rehashed(pack) =>
         verdict.brokenAt =
           IF Changed(pack) = {} THEN Absent ELSE Decoded(pack.rows[Min(Changed(pack))].seq)
=============================================================================
