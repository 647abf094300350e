------------------------------- MODULE McpInit -------------------------------
(***************************************************************************)
(* `hookwarden-mcp init` (packages/mcp/src/init.ts and client-config): it  *)
(* visits the MCP clients in turn and enters hookwarden into the           *)
(* configuration of each: read, decide, back up to <config>.bak, write     *)
(* <config>.tmp, rename it over <config>.  fs.writeFile first truncates    *)
(* its file and then fills it.  Processes may be killed, or die of an      *)
(* error of the file system, between any two of these steps.               *)
(*                                                                         *)
(* Claude Desktop and Cursor keep all servers in one JSON file, Continue   *)
(* has one YAML file per server.  A configuration is abstracted to the     *)
(* entries in it: "mine" is an entry for hookwarden the user wrote, "ours" *)
(* the one the program writes.  The client applications are outside the    *)
(* repository; they save their configuration as a whole.                   *)
(***************************************************************************)
EXTENDS Naturals, Sequences, FiniteSets

CONSTANTS
  Inits,     \* processes
  Clients,   \* the installed clients, in the order of getClientConfigPaths
  Yaml,      \* those among them with a file per server
  Servers,   \* other MCP servers the user may have
  MaxSaves   \* bound on the saves of the applications

ASSUME ClientsAssumption == Clients \in Seq(STRING) /\ Len(Clients) > 0
ASSUME YamlAssumption == Yaml \subseteq STRING
ASSUME ServersAssumption == Servers \cap {"mine", "ours"} = {}
ASSUME SavesAssumption == MaxSaves \in Nat

Client == {Clients[i] : i \in DOMAIN Clients}

Entry == Servers \cup {"mine", "ours"}
Content == [kind : {"absent", "torn", "whole"}, entries : SUBSET Entry]

Nothing == [kind |-> "absent", entries |-> {}]
Torn == [kind |-> "torn", entries |-> {}]
Whole(entries) == [kind |-> "whole", entries |-> entries]

VARIABLES
  config,  \* the configuration of every client
  bak,     \* its backup
  tmp,     \* the temporary file beside it
  init,    \* the state of every process
  saves,   \* saves of the applications so far
  overlap  \* whether two of them ever worked on one configuration at once

vars == <<config, bak, tmp, init, saves, overlap>>

(* "into" is what a process that opened <config>.tmp writes to: the file   *)
(* keeps its identity when another process renames it.                     *)
Process == [at : {"idle", "read", "bak", "fillBak", "tmp", "fillTmp", "rename",
                  "ended", "dead"},
            todo : Seq(Client), force : BOOLEAN, dry : BOOLEAN,
            existing : Content, into : {"none", "tmp", "config", "gone"},
            rows : [Client -> {"none", "added", "updated", "skipped", "error"}]]

TypeOK ==
  /\ config \in [Client -> Content]
  /\ bak \in [Client -> Content]
  /\ tmp \in [Client -> Content]
  /\ init \in [Inits -> Process]
  /\ saves \in 0 .. MaxSaves
  /\ overlap \in BOOLEAN

Configs(c) ==
  {Nothing, Torn} \cup
  {Whole(e) : e \in SUBSET (IF c \in Yaml THEN {"mine"} ELSE Servers \cup {"mine"})}

Init ==
  /\ config \in [Client -> UNION {Configs(c) : c \in Client}]
  /\ \A c \in Client : config[c] \in Configs(c)
  /\ bak = [c \in Client |-> Nothing] /\ tmp = [c \in Client |-> Nothing]
  /\ init = [p \in Inits |->
       [at |-> "idle", todo |-> Clients, force |-> FALSE, dry |-> FALSE,
        existing |-> Nothing, into |-> "none", rows |-> [c \in Client |-> "none"]]]
  /\ saves = 0 /\ overlap = FALSE

Files == UNCHANGED <<config, bak, tmp, saves, overlap>>

Working(p) == init[p].at \notin {"idle", "ended", "dead"}

Run(p) ==
  /\ init[p].at = "idle"
  /\ \E force, dry \in BOOLEAN :
       init' = [init EXCEPT ![p].at = "read", ![p].force = force, ![p].dry = dry]
  /\ overlap' = (overlap \/ \E q \in Inits : Working(q))
  /\ UNCHANGED <<config, bak, tmp, saves>>

-----------------------------------------------------------------------------
(* One client: writeJsonMcpServersConfig and writeContinueDevConfig.       *)

Now(p) == Head(init[p].todo)

Has(c, content) ==
  IF c \in Yaml THEN content.kind # "absent"
                ELSE {"mine", "ours"} \cap content.entries # {}

(* Mutants of Merged: the entry replaces the map it belongs into; it goes  *)
(* in beside the map.                                                      *)
MergedAlone(c, content) == Whole({"ours"})
MergedBeside(c, content) == Whole(content.entries)

Merged(c, content) ==
  IF c \in Yaml THEN Whole({"ours"})
                ELSE Whole((content.entries \ {"mine"}) \cup {"ours"})

(* The row of the client, and on to the next one or to the exit.           *)
Row(p, status) ==
  LET rest == Tail(init[p].todo) IN
    init' = [init EXCEPT ![p].rows[Now(p)] = status, ![p].todo = rest,
                         ![p].existing = Nothing, ![p].into = "none",
                         ![p].at = IF rest = <<>> THEN "ended" ELSE "read"]

Status(p) == IF Has(Now(p), init[p].existing) THEN "updated" ELSE "added"

(* A configuration that cannot be read, for any reason but that it is not  *)
(* there, is an error, and so is unparsable JSON; an entry that exists is  *)
(* left alone unless --force, --dry-run stops before the first write.      *)
Read(p) ==
  LET c == Now(p)
      found == config[c]
      taken == Has(c, found) /\ ~init[p].force
      broken == c \notin Yaml /\ found.kind = "torn" IN
    /\ init[p].at = "read"
    /\ \/ Row(p, "error")
       \/ ~broken /\ taken /\ Row(p, "skipped")
       \/ /\ ~broken /\ ~taken /\ init[p].dry
          /\ Row(p, IF Has(c, found) THEN "updated" ELSE "added")
       \/ /\ ~broken /\ ~taken /\ ~init[p].dry
          /\ init' = [init EXCEPT ![p].existing = found,
                ![p].at = IF found.kind = "absent" THEN "tmp" ELSE "bak"]
    /\ Files

OpenBak(p) ==
  /\ init[p].at = "bak"
  /\ bak' = [bak EXCEPT ![Now(p)] = Torn]
  /\ init' = [init EXCEPT ![p].at = "fillBak"]
  /\ UNCHANGED <<config, tmp, saves, overlap>>

(* Mutant of BackedUp: the backup is taken of the merged configuration.    *)
BackedUpMerged(p) == Merged(Now(p), init[p].existing)

BackedUp(p) == init[p].existing

FillBak(p) ==
  /\ init[p].at = "fillBak"
  /\ bak' = [bak EXCEPT ![Now(p)] = BackedUp(p)]
  /\ init' = [init EXCEPT ![p].at = "tmp"]
  /\ UNCHANGED <<config, tmp, saves, overlap>>

(* Mutant of OpenTmp: the configuration is opened in place.                *)
OpenInPlace(p) ==
  /\ init[p].at = "tmp"
  /\ tmp' = [tmp EXCEPT ![Now(p)] = Torn]
  /\ config' = [config EXCEPT ![Now(p)] = Torn]
  /\ init' = [init EXCEPT ![p].at = "fillTmp", ![p].into = "tmp"]
  /\ UNCHANGED <<bak, saves, overlap>>

OpenTmp(p) ==
  /\ init[p].at = "tmp"
  /\ tmp' = [tmp EXCEPT ![Now(p)] = Torn]
  /\ init' = [init EXCEPT ![p].at = "fillTmp", ![p].into = "tmp"]
  /\ UNCHANGED <<config, bak, saves, overlap>>

(* Two processes that fill one file with different texts may leave a       *)
(* mixture of both.                                                        *)
Filled(file, text) ==
  IF file.kind = "torn" \/ file = text THEN {text} ELSE {text, Torn}

FillTmp(p) ==
  LET c == Now(p)
      text == Merged(c, init[p].existing) IN
    /\ init[p].at = "fillTmp"
    /\ init' = [init EXCEPT ![p].at = "rename"]
    /\ CASE init[p].into = "tmp" ->
              /\ \E f \in Filled(tmp[c], text) : tmp' = [tmp EXCEPT ![c] = f]
              /\ UNCHANGED config
         [] init[p].into = "config" ->
              /\ \E f \in Filled(config[c], text) : config' = [config EXCEPT ![c] = f]
              /\ UNCHANGED tmp
         [] OTHER -> UNCHANGED <<config, tmp>>
    /\ UNCHANGED <<bak, saves, overlap>>

(* The file another process still has open moves with the rename, and the  *)
(* file it replaces has no name any more.                                  *)
Moved(p, c, q) ==
  IF q = p \/ init[q].at # "fillTmp" \/ Now(q) # c THEN init[q].into
  ELSE CASE init[q].into = "tmp" -> "config"
         [] init[q].into = "config" -> "gone"
         [] OTHER -> init[q].into

Rename(p) ==
  LET c == Now(p)
      rest == Tail(init[p].todo) IN
    /\ init[p].at = "rename"
    /\ tmp[c].kind # "absent"
    /\ config' = [config EXCEPT ![c] = tmp[c]]
    /\ tmp' = [tmp EXCEPT ![c] = Nothing]
    /\ init' = [q \in Inits |->
         IF q # p THEN [init[q] EXCEPT !.into = Moved(p, c, q)]
         ELSE [init[p] EXCEPT !.rows[c] = Status(p), !.todo = rest,
                 !.existing = Nothing, !.into = "none",
                 !.at = IF rest = <<>> THEN "ended" ELSE "read"]]
    /\ UNCHANGED <<bak, saves, overlap>>

(* Killed, or an exception of the file system, which nothing catches: the  *)
(* clients left are not visited and no table is printed.  Renaming a file  *)
(* that is not there is such an exception.                                 *)
Die(p) ==
  /\ Working(p)
  /\ init' = [init EXCEPT ![p].at = "dead"]
  /\ Files

-----------------------------------------------------------------------------
Busy(c) ==
  \E p \in Inits : init[p].at \in {"bak", "fillBak", "tmp", "fillTmp", "rename"} /\ Now(p) = c

(* The user adds or removes a server in the client's own settings.         *)
Save(c) ==
  /\ saves < MaxSaves /\ c \notin Yaml
  /\ config[c].kind # "torn"
  /\ \E s \in Servers :
       config' = [config EXCEPT ![c] = Whole(
         IF s \in config[c].entries THEN config[c].entries \ {s}
                                    ELSE config[c].entries \cup {s})]
  /\ saves' = saves + 1
  /\ overlap' = (overlap \/ Busy(c))
  /\ UNCHANGED <<bak, tmp, init>>

Next ==
  \/ \E p \in Inits : \/ Run(p) \/ Read(p) \/ OpenBak(p) \/ FillBak(p)
                      \/ OpenTmp(p) \/ FillTmp(p) \/ Rename(p) \/ Die(p)
  \/ \E c \in Client : Save(c)

Spec == Init /\ [][Next]_vars

-----------------------------------------------------------------------------
(* No step, a crash in the middle of a write included, makes a             *)
(* configuration that could be parsed one that cannot, as long as inits    *)
(* run one after the other and no application saves between the read of    *)
(* its configuration and the rename over it: every init writes the same    *)
(* <config>.tmp, and one of two may rename what the other has just         *)
(* truncated.                                                              *)
NeverCorruptsAlone ==
  [][~overlap' =>
       \A c \in Client : config[c].kind = "whole" => config'[c].kind = "whole"]_vars

(* Without such an overlap no step of an init loses a server the user has: *)
(* what the rename writes is the configuration of that moment with         *)
(* hookwarden entered, also when an init before it died half-way.          *)
MergeIsAtomic ==
  [][~overlap' /\ saves' = saves =>
       \A c \in Client : config[c].entries \cap Servers \subseteq config'[c].entries]_vars

(* From the first write beside a configuration to the rename over it, the  *)
(* backup is what the process read, and what it read is still in place.    *)
BackupIsTheOriginal ==
  \A p \in Inits :
    (/\ ~overlap
     /\ init[p].at \in {"tmp", "fillTmp", "rename"}
     /\ init[p].existing.kind # "absent") =>
      bak[Now(p)] = init[p].existing /\ config[Now(p)] = init[p].existing

(* A process that ends with no row in error leaves every client with an    *)
(* entry for hookwarden, unless it was only trying.                        *)
EndedMeansRegistered ==
  \A p \in Inits :
    init[p].at = "ended" /\ ~init[p].dry /\ ~overlap =>
      \A c \in Client : init[p].rows[c] # "error" => Has(c, config[c])
=============================================================================
