-------------------------- MODULE MC_RetryProvider --------------------------
(* RetryProvider against every kind of failure.                            *)
EXTENDS RetryProvider

Response(adapter, kind, status, code, form, after) ==
    [adapter |-> adapter, kind |-> kind, status |-> status, code |-> code, form |-> form,
     after |-> after]

Refusals ==
    {Response(adapter, "api", status, "none", "seconds", after) :
        adapter \in {"openai", "google"}, status \in {429, 500}, after \in {0, 2, 4, 6}}
      \cup {Response(adapter, "api", 503, "none", "date", after) :
              adapter \in {"openai", "anthropic"}, after \in {-1, 2, 4}}
      \cup {Response("openai", "api", status, "none", form, 2) :
              status \in {401, 429, 503}, form \in {"absent", "empty", "junk"}}
      \cup {Response(adapter, "api", status, "none", "seconds", 2) :
              adapter \in {"openai", "anthropic", "google"}, status \in {408, 529}}
      \cup {Response("openai", "api", 429, "sharing_limit", form, 2) :
              form \in {"absent", "seconds"}}
SomeResponses ==
    Refusals
      \cup {Response("openai", "failed", 200, code, "absent", 0) :
              code \in {"server_error", "overload_text", "other"}}
      \cup {Response("openai", "empty_output", 200, "none", "absent", 0),
            Response("google", "api", 200, "overloaded", "absent", 0),
            Response("anthropic", "protocol", 200, "none", "absent", 0),
            Response("anthropic", "transport", 0, "none", "absent", 0),
            Response("none", "configuration", 0, "none", "absent", 0)}
=============================================================================
