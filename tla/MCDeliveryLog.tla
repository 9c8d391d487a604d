--------------------------- MODULE MCDeliveryLog ---------------------------
(***************************************************************************)
(* DeliveryLog for TLC, with the handlers that the configuration loads.  A  *)
(* behaviour begins with one input of the functions of ProviderConfiguration*)
(* and AspsmsProvider, or with none, and goes on as one of DeliveryLog: the *)
(* services are constructed when the configuration has been read.          *)
(***************************************************************************)
EXTENDS DeliveryLog, TLC, ProviderConfiguration, AspsmsProvider

ConfiguredHandlers == LoadedHandlers

VARIABLE input      \* the input looked at, before anything else happens

NoInput == [kind |-> "None"]

Inputs ==
  [kind : {"LogProviders"}, value : LogDocuments]
  \cup [kind : {"SmsProviders"}, value : SmsDocuments]
  \cup [kind : {"QueueProviders"}, value : QueueDocuments]
  \cup [kind : {"Guid"}, value : Guids]

(* One initial state of DeliveryLog is enough for the inputs.              *)
FirstConfig ==
  /\ handlers = <<"SqlServerLogger">> /\ shared
  /\ \A m \in Messages : provider[m] = "Fake" /\ path[m] = "Direct"

MCInit ==
  /\ Init
  /\ input = NoInput \/ (FirstConfig /\ input \in Inputs)

Construct == input # NoInput /\ input' = NoInput /\ UNCHANGED vars

MCNext == Construct \/ (input = NoInput /\ Next /\ UNCHANGED input)

MCSpec == MCInit /\ [][MCNext]_<<vars, input>>

(* BaseSmsc reads the log providers as the document says, no more and no    *)
(* fewer documents than LogReadAsSaid names.  BaseSmsc.cs, 72-102.         *)
LogReaderExact ==
  input.kind = "LogProviders" => LogReadAsSaid(input.value)

(* Smsc reads the SMS providers as the document says, in the documents that *)
(* SmsReadAsSaid names.  Smsc.cs, 250-318.                                 *)
SmsReaderExact ==
  input.kind = "SmsProviders" => SmsReadAsSaid(input.value)

(* Smsc accepts the queue providers of the documents that QueueReadAsSaid   *)
(* names, and of no other.  Smsc.cs, 335-378.                              *)
QueueReaderExact ==
  input.kind = "QueueProviders" => QueueReadAsSaid(input.value)

(* The numbers that Aspsms gets tell two references apart as                *)
(* SeparatedByToInt says.  AspsmsProvider.cs, 69-84.                       *)
ToIntSeparates == input.kind = "Guid" => SeparatedByToInt(input.value)
=============================================================================
