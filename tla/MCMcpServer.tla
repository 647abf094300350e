---------------------------- MODULE MCMcpServer ----------------------------
EXTENDS McpServer

MCReleases == {[engine |-> 1, rules |-> 1, hash |-> 1], [engine |-> 1, rules |-> 1, hash |-> 2]}
MCManifests == MCReleases \cup {[engine |-> 2, rules |-> 1, hash |-> 1], [engine |-> 1, rules |-> 2, hash |-> 1], Absent}

File(language, parses) == [language |-> language, parses |-> parses]
Args(code, files, language, provider) == [code |-> code, files |-> files, language |-> language, provider |-> provider]
MCInputs ==
  {Args(TRUE, <<>>, Absent, Absent), Args(TRUE, <<>>, "python", "stripe"),
   Args(FALSE, <<>>, Absent, Absent), Args(TRUE, <<>>, Absent, "nobody"),
   Args(FALSE, <<File("python", TRUE), File("go", FALSE)>>, Absent, Absent),
   Args(FALSE, <<File("go", TRUE), File("python", TRUE)>>, Absent, "github")}

\* Three rows, the last payload a zero; one signed batch.
Spelt(value, as) == [value |-> value, as |-> as]
Row(n, kind, payload, prev, workspace) ==
  LET seq == Spelt(n, "plain") IN
    [seq |-> seq, kind |-> kind, payload |-> payload, prev |-> prev, extra |-> "day",
     hash |-> Hex(Digest(Decoded(prev), <<workspace, kind, Canonical(payload), seq>>))]
Rows(a, b, c) ==
  LET one == Row(1, a, "x", Spelt(Absent, "null"), "w")
      two == Row(2, b, "x", one.hash, "w")
  IN <<one, two, Row(3, c, "0", two.hash, "w")>>
Signed ==
  [object |-> TRUE, workspace |-> "w", rows |-> Rows("a", "b", "c"),
   batches |-> <<[root |-> Hex("root"), signature |-> Spelt(Sign("kms", "root"), "base64")]>>,
   rest |-> "0", manifest |-> Absent, signature |-> Absent, key |-> "kms"]
MCExported ==
  [Signed EXCEPT !.manifest = Manifest(Signed), !.signature = Spelt(Sign("kms", Manifest(Signed)), "base64")]

\* What may become of it: every edit with the old manifest hash, and with a new one
\* from a writer that embeds its key and from one that does not.
Edited ==
  LET e == MCExported  r == e.rows IN
  {e, [e EXCEPT !.rows[3].payload = "-0"], [e EXCEPT !.rows[2].payload = "y"], [e EXCEPT !.workspace = "v"],
   [e EXCEPT !.rows = <<r[1], r[3]>>], [e EXCEPT !.rows = <<r[2], r[1], r[3]>>], [e EXCEPT !.rows = <<r[1], r[2]>>],
   [e EXCEPT !.rows = <<r[2], r[3]>>], [e EXCEPT !.rows = Rows("a", "z", "c")], [e EXCEPT !.batches = <<>>],
   [e EXCEPT !.rows[2].kind = Absent], [e EXCEPT !.rows[3].payload = "1e999"], [e EXCEPT !.batches[1].root = Absent],
   [e EXCEPT !.batches[1].signature = Spelt(Sign("other", "root"), "base64")],
   \* What the chain does not see; what the manifest does not see; other spellings.
   [e EXCEPT !.rows[3].prev.as = "upper", !.rows[1].prev = Absent, !.rows[2].extra = "night", !.rest = "else",
             !.batches[1].root.as = "upper", !.batches[1].signature.as = "base64url"],
   [e EXCEPT !.rest = "-0", !.signature.as = "base64url"], [e EXCEPT !.rows[2].hash.as = "upper"],
   [e EXCEPT !.rows[2].seq.as = "padded"], [e EXCEPT !.rows[2].seq = Spelt(Absent, "word")],
   [e EXCEPT !.rows[1].extra = Absent], [e EXCEPT !.rest = Infinite]}
MCPacks ==
  {[p EXCEPT !.key = Absent] : p \in Edited}
    \cup {[p EXCEPT !.manifest = Manifest(p), !.key = k] : p \in Edited, k \in {"kms", Absent}}
    \cup {[MCExported EXCEPT !.object = FALSE], [MCExported EXCEPT !.signature = Absent],
          [MCExported EXCEPT !.signature = Absent, !.manifest = Absent], [MCExported EXCEPT !.key = "malformed"]}
=============================================================================
