--------------------------- MODULE Configuration ----------------------------
(***************************************************************************)
(* What decides how far an invocation of the command gets: the token that  *)
(* entrypoint.sh decodes, the flags, and the fields that config.Load, the  *)
(* flag overrides and the result sink look at.  A field that is only       *)
(* passed on is left out.                                                  *)
(***************************************************************************)
EXTENDS Integers

Invocation ==
    [token : BOOLEAN,       \* entrypoint.sh can decode its argument
     usage : BOOLEAN,       \* the flags parse and leave one argument
     json : BOOLEAN,        \* --json
     required : BOOLEAN,    \* the JSON parses and has a server, a key and a data source
     dbUrl : {"blank", "malformed", "good"},
     siblings : {"missing", "otherTable", "good"},   \* the four fields beside db_url
     sampleSize : Int,      \* sampleSize of the JSON, 0 if absent
     sampleFlag : Int]      \* --sample-size, 0 if absent

\* DBURL alone switches the sink on.
Configured(c) == c.dbUrl # "blank"

\* sink.Validate does not parse db_url; that is left to normalizeDSN, at the write.
SinkValid(c) == Configured(c) => c.siblings = "good"

Loads(c) == c.required /\ SinkValid(c)

\* Only a zero is replaced by the default, and only a positive flag overrides.
SampleSize(c) ==
    IF c.sampleFlag > 0 THEN c.sampleFlag ELSE IF c.sampleSize = 0 THEN 3 ELSE c.sampleSize
=============================================================================
