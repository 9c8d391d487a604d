----------------------- MODULE ProviderConfiguration -----------------------
(***************************************************************************)
(* The configuration files of the log, SMS and queue providers and the      *)
(* three loops that read them (BaseSmsc.ReadLogProvidersConfiguration,      *)
(* Smsc.ReadSmsProvidersConfiguration, Smsc.ReadQueueProvidersConfiguration)*)
(* as functions of the document.                                           *)
(*                                                                         *)
(* The loops use a forward-only XmlReader.  A document is the sequence of   *)
(* the nodes such a reader stops at, and the reader is a position in it:    *)
(* one past the end when it has read everything.  White space is a node,    *)
(* too.  It matters in two places, because ReadToFollowing moves before it  *)
(* looks: a reader that already stands on the element looked for passes it. *)
(* The documents are the ones the schemas beside the files admit.           *)
(***************************************************************************)
EXTENDS Naturals, Sequences, SequencesExt

CONSTANT MaxProviders     \* bound: providers in a document

ASSUME ConfigurationAssumption == MaxProviders \in Nat

(* A node: the element, the provider it belongs to (its place in the        *)
(* document) and an attribute.                                             *)
Node(element, place, value) ==
  [element |-> element, provider |-> place, value |-> value]

Space(spaced) == IF spaced THEN <<Node("Space", 0, "")>> ELSE <<>>

(* A document: an optional white space before the first provider, then the  *)
(* nodes of each.                                                          *)
Document(spaced, parts) == FlattenSeq(<<Space(spaced)>> \o parts)

(* The first of some positions, or the end.                                *)
FirstOf(nodes, positions) ==
  IF positions = {} THEN Len(nodes) + 1 ELSE Min(positions)

(* Plausible fault: an element the reader stands on is found.              *)
ReadToFollowing_Inclusive(nodes, i, element) ==
  FirstOf(nodes, {j \in i..Len(nodes) : nodes[j].element = element})

(* ReadToFollowing moves to the next such element, wherever it is.         *)
ReadToFollowing(nodes, i, element) ==
  FirstOf(nodes, {j \in i + 1..Len(nodes) : nodes[j].element = element})

(* Where the reader is after ReadToNextSibling found no more of the element *)
(* it stands on.                                                           *)
LastSibling(nodes, i) ==
  IF i > Len(nodes) THEN i
  ELSE FirstOf(nodes, {j \in i..Len(nodes) :
                         nodes[j].element # nodes[i].element}) - 1

(* What a loop over siblings reads, from the first one at position i.      *)
Siblings(nodes, i) ==
  IF i > Len(nodes) THEN <<>> ELSE SubSeq(nodes, i, LastSibling(nodes, i))

(* The loop over the providers: the next provider behind the reader, with   *)
(* its entry, and the loop from where that entry leaves the reader.         *)
Table(nodes, element, entry, next) ==
  LET read[i \in 1..Len(nodes) + 1] ==
        LET p == ReadToFollowing(nodes, i, element)
        IN  IF p > Len(nodes) THEN <<>> ELSE <<entry[p]>> \o read[next[p]]
  IN  read[1]

(* IsFeatureEnabled.  xs:boolean also has "1" for true.                    *)
IsFeatureEnabled(value) == value \in {"true", "yes"}

-----------------------------------------------------------------------------
(* LogProviders.xml.  The schema admits at most one setting of a provider;  *)
(* spaced says whether white space follows its class element.              *)
LogNames == {"TextLogger", "SqlServerLogger"}

LogProviders == [name : LogNames, hasSet : BOOLEAN, spaced : BOOLEAN]

LogDocuments ==
  [spaced : BOOLEAN, providers : SeqOf(LogProviders, MaxProviders) \ {<<>>}]

(* Name, assembly and class are read with the element that starts the       *)
(* provider; the reader is then on what follows class.                     *)
LogPart(p, i) ==
  <<Node("logProvider", i, p.name)>> \o Space(p.spaced)
    \o <<Node("configuration", i, "")>>
    \o IF p.hasSet THEN <<Node("set", i, "fileName")>> ELSE <<>>

LogNodes(d) ==
  Document(d.spaced, [i \in DOMAIN d.providers |-> LogPart(d.providers[i], i)])

(* The settings that the loop takes for those of the provider at p.        *)
LogSet(nodes, p) ==
  ReadToFollowing(nodes, ReadToFollowing(nodes, p + 1, "configuration"), "set")

LogEntry(nodes, p) ==
  LET sets == Siblings(nodes, LogSet(nodes, p))
  IN  [provider |-> nodes[p].provider, name |-> nodes[p].value,
       settings |-> [k \in DOMAIN sets |-> sets[k].provider]]

(* Plausible fault: the loop goes on behind the name of the provider.      *)
LogTable_Rereads(d) ==
  LET nodes == LogNodes(d)
  IN  Table(nodes, "logProvider",
            [p \in DOMAIN nodes |-> LogEntry(nodes, p)],
            [p \in DOMAIN nodes |-> p])

(* The table of log providers that the loop reads from a document.         *)
LogTable(d) ==
  LET nodes == LogNodes(d)
  IN  Table(nodes, "logProvider",
            [p \in DOMAIN nodes |-> LogEntry(nodes, p)],
            [p \in DOMAIN nodes |-> LastSibling(nodes, LogSet(nodes, p))])

(* Reading throws for a name that is already there, loading for a text      *)
(* logger without file.  The handlers are attached in the order of the      *)
(* table, whatever the attribute enabled says.                             *)
LogAccepted(d) ==
  /\ IsInjective([i \in DOMAIN LogTable(d) |-> LogTable(d)[i].name])
  /\ \A i \in DOMAIN LogTable(d) :
       LogTable(d)[i].name = "TextLogger" => LogTable(d)[i].settings # <<>>

LoadedHandlers ==
  {[i \in DOMAIN LogTable(d) |-> LogTable(d)[i].name] :
     d \in {e \in LogDocuments : LogAccepted(e)}}

-----------------------------------------------------------------------------
(* SmsProviders.xml.  A provider has at least one feature and one setting;  *)
(* here spaced says whether white space follows <features>.                *)
SmsProviders ==
  [default : {"true", "1", "false"}, spaced : BOOLEAN,
   features : {<<"simpleSms">>, <<"simpleSms", "testMode">>}]

SmsDocuments ==
  [spaced : BOOLEAN, providers : SeqOf(SmsProviders, MaxProviders) \ {<<>>}]

SmsPart(p, i) ==
  <<Node("smsProvider", i, p.default), Node("features", i, "")>>
    \o Space(p.spaced)
    \o [k \in DOMAIN p.features |-> Node("feature", i, p.features[k])]
    \o <<Node("configuration", i, ""), Node("set", i, "")>>

SmsNodes(d) ==
  Document(d.spaced, [i \in DOMAIN d.providers |-> SmsPart(d.providers[i], i)])

(* ReadStartElement moves past <features>, onto the white space behind it   *)
(* or onto the first feature.                                              *)
SmsFeature(nodes, p) == ReadToFollowing(nodes, p + 2, "feature")

SmsSet(nodes, p) ==
  ReadToFollowing(nodes,
    ReadToFollowing(nodes, LastSibling(nodes, SmsFeature(nodes, p)),
                    "configuration"), "set")

SmsEntry(nodes, p) ==
  LET features == Siblings(nodes, SmsFeature(nodes, p))
      sets == Siblings(nodes, SmsSet(nodes, p))
  IN  [provider |-> nodes[p].provider,
       default  |-> IsFeatureEnabled(nodes[p].value),
       features |-> [k \in DOMAIN features |->
                       <<features[k].provider, features[k].value>>],
       settings |-> [k \in DOMAIN sets |-> sets[k].provider]]

SmsTable(d) ==
  LET nodes == SmsNodes(d)
  IN  Table(nodes, "smsProvider",
            [p \in DOMAIN nodes |-> SmsEntry(nodes, p)],
            [p \in DOMAIN nodes |-> LastSibling(nodes, SmsSet(nodes, p))])

-----------------------------------------------------------------------------
(* QueueProviders.xml: name, assembly and class only.  A second default     *)
(* provider throws, and so does the absence of one; a provider that is not  *)
(* enabled is loaded and may be the default.                               *)
QueueProviders == [name : {"Queue", "Queue2"}, default : {"true", "1", "false"}]

QueueDocuments ==
  [spaced : BOOLEAN, providers : SeqOf(QueueProviders, MaxProviders) \ {<<>>}]

QueueNodes(d) ==
  Document(d.spaced, [i \in DOMAIN d.providers |->
                        <<Node("queueProvider", i, d.providers[i])>>])

QueueTable(d) ==
  LET nodes == QueueNodes(d)
  IN  Table(nodes, "queueProvider", nodes, [p \in DOMAIN nodes |-> p])

(* Plausible fault: a second default provider replaces the first.          *)
QueueAccepted_LastDefault(d) ==
  LET table == QueueTable(d)
  IN  /\ IsInjective([i \in DOMAIN table |-> table[i].value.name])
      /\ \E i \in DOMAIN table : IsFeatureEnabled(table[i].value.default)

QueueAccepted(d) ==
  LET table == QueueTable(d)
      defaults == {i \in DOMAIN table : IsFeatureEnabled(table[i].value.default)}
  IN  /\ IsInjective([i \in DOMAIN table |-> table[i].value.name])
      /\ \E i \in defaults : defaults = {i}

-----------------------------------------------------------------------------
(* What is read, compared with what the document says.                     *)

(* The table holds every log provider with its own settings exactly for the *)
(* documents with white space where the reader needs it and a setting in    *)
(* every provider but the last: elsewhere a provider is passed over, or     *)
(* takes the setting of a later one, which is lost with those in between.   *)
LogReadAsSaid(d) ==
  LET p == d.providers
      n == Len(p)
      Exact == LogTable(d) =
        [i \in 1..n |-> [provider |-> i, name |-> p[i].name,
                         settings |-> IF p[i].hasSet THEN <<i>> ELSE <<>>]]
      Readable == /\ d.spaced
                  /\ \A i \in 1..n - 1 : p[i].hasSet /\ p[i].spaced
                  /\ p[n].hasSet => p[n].spaced
  IN  Exact <=> Readable

(* The table of SMS providers, with the mark of the default one, is what    *)
(* the document says exactly if every <features> is followed by white space *)
(* and no provider is marked by the other spelling of true.                *)
SmsReadAsSaid(d) ==
  LET p == d.providers
      n == Len(p)
      Exact == SmsTable(d) =
        [i \in 1..n |-> [provider |-> i, default |-> p[i].default # "false",
                         features |-> [k \in DOMAIN p[i].features |->
                                         <<i, p[i].features[k]>>],
                         settings |-> <<i>>]]
      Readable == /\ d.spaced
                  /\ \A i \in 1..n : p[i].spaced /\ p[i].default # "1"
  IN  Exact <=> Readable

(* The queue providers of a document with white space before the first one  *)
(* and the usual spelling are accepted exactly if their names differ and    *)
(* one of them is the default.                                             *)
QueueReadAsSaid(d) ==
  LET p == d.providers
      Unambiguous == /\ \A i, j \in DOMAIN p : p[i].name = p[j].name => i = j
                     /\ \E i \in DOMAIN p :
                          \A j \in DOMAIN p : p[j].default = "true" <=> j = i
  IN  d.spaced /\ (\A i \in DOMAIN p : p[i].default # "1")
        => (QueueAccepted(d) <=> Unambiguous)
=============================================================================
