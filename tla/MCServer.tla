------------------------------ MODULE MCServer ------------------------------
EXTENDS Server

MCFields == {"port", "thread_count", "max_events"}

MCDefault == [port |-> 5, thread_count |-> 2, max_events |-> 4]

MCFlag == [port |-> "--port", thread_count |-> "--threads", max_events |-> "--max-events"]

MCStoi == [text \in {"-1", "1"} |-> IF text = "1" THEN 1 ELSE -1]

Words == {"--config", "--dump-config", "--port", "--threads", "--max-events", "a", "1", "-1"}

MCArguments == UNION {[1 .. n -> Words] : n \in 0 .. 4}

Number(n) == [number |-> TRUE, n |-> n]
Text == [number |-> FALSE, n |-> 0]

Object(f, value) == [json |-> TRUE, items |-> [g \in {f} |-> value]]

(* No file; files for two settings, one of them out of range (19 is 3 in four
   bits, port 0 stands for any); a value that is no number; no JSON. *)
MCFileSystems ==
    { [p \in {} |-> 0],
      [p \in {"config.json", "a", "1"} |->
          CASE p = "config.json" -> Object("thread_count", Number(19))
            [] p = "a" -> Object("port", Number(0))
            [] p = "1" -> Object("port", Number(3))],
      [p \in {"config.json", "a"} |->
          IF p = "a" THEN Object("thread_count", Text) ELSE [json |-> FALSE, items |-> << >>]] }
=============================================================================
