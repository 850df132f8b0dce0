------------------------------- MODULE MCSessions -------------------------------
(* A small instance of Sessions: two students, two workspaces, two documents. *)
EXTENDS Sessions, TLC

MCOpSets ==
    { {"signup", "oauth", "login", "role", "password"},
      {"forgot", "reset", "expiry"},
      {"role", "login", "document"},
      {"document", "join", "edit"}, {"document", "reopen", "edit"},
      {"document", "join", "redis_fails"},
      {"chat", "join"}, {"chat", "say", "stream"},
      {"upload", "reconcile", "workspace", "read", "delete", "fails"},
      {"create", "reconcile", "workspace", "link", "remove"},
      {"upload", "reconcile", "workspace", "link", "fails"},
      {"import", "create", "reconcile", "read", "link", "remove"},
      {"ask", "post", "fails"}, {"board", "patch", "erase"}, {"shortlist", "unlist"},
      {"students", "toggle", "lifecycle"}, {"students", "toggle", "minute", "cache_fails"},
      {"wizard", "profile"} }

Symmetric == Permutations(Users) \cup Permutations(Procs)
=============================================================================
