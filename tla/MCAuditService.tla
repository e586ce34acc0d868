---------------------------- MODULE MCAuditService ----------------------------
(* The file sink, which sends at once, and a Firehose with batches of two.      *)
(* A long line fills a file; a short one still fits behind the first.          *)
EXTENDS FileSink

MCBatchSize == <<1, 2>>
MCLineLength == <<1, 2, 2, 2>>
=============================================================================
