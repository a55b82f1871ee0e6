--------------------------- MODULE MCItemExporters ---------------------------
(***************************************************************************)
(* ItemExporters for TLC: three lists of outputs, in which each kind of     *)
(* exporter is followed or preceded by another one.                         *)
(***************************************************************************)
EXTENDS ItemExporters
OutputLists == {<<"kafka", "postgres">>, <<"pubsub", "gcs">>, <<"kinesis", "pubsub">>}
ItemTypes == <<"block", "transaction", "contract">>
BundledTypes == {"block", "transaction"}
=============================================================================
