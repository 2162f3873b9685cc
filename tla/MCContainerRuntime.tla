------------------------ MODULE MCContainerRuntime ------------------------
EXTENDS ContainerRuntime, TLC

MCSecrets == <<"db">> :> <<"pw">> @@ <<"web">> :> <<"pw">>
MCAddresses == <<"web">> :> <<"addr">>

MCImage(layers, env) ==
    [platform |-> TRUE,
     manifest |-> [diff_ids |-> layers, entrypoint |-> <<"sh">>, cmd |-> <<"-c">>, env |-> env]]

\* Two usable images on a common layer, and one without layers.
MCImageStore ==
    ("v1" :> MCImage(<<"l1", "l2">>, "PORT" :> <<"80">> @@ "PATH" :> <<"bin">>))
      @@ ("v2" :> MCImage(<<"l1", "l3">>, "PATH" :> <<"bin">>))
      @@ ("empty" :> MCImage(<<>>, <<>>))

MCService(image, env) ==
    [image |-> image, port |-> 80, cpu |-> 25, memory |-> 256, env |-> env, command |-> None,
     health |-> None, volumes |-> <<>>]

MCTask(image, env) ==
    [image |-> image, cpu |-> 25, memory |-> 256, timeout |-> 1500, env |-> env,
     command |-> <<"sh">>]

MCServices(s) == [service |-> "web" :> s, task |-> <<>>]
MCTasks(t) == [service |-> <<>>, task |-> "job" :> t]

\* The configurations whose containers are run.
MCRun ==
    {MCServices([MCService("v1", "PORT" :> <<"81">> @@
                                 "DB" :> <<"x", "${", "secret(", "db", ")", "}", "y">>)
                 EXCEPT !.health = [rooted |-> TRUE, interval |-> 10],
                        !.volumes = <<[name |-> "data", size |-> 1, ephemeral |-> FALSE]>>]),
     MCServices(MCService("v2", "WEB" :> <<"${", "service.", "web", ".address", "}">>)),
     MCTasks(MCTask("v2", <<>>)),
     MCTasks(MCTask("empty", <<>>))}

\* Every text of at most MCLength tokens as the value of a variable.
MCLength == 5
MCTokens == {"${", "}", "secret(", ")", "service.", ".address", "web"}
MCTexts == UNION {[1..n -> MCTokens] : n \in 0..MCLength}

MCParsed == {MCServices(MCService("v1", "A" :> text)) : text \in MCTexts}

\* One definition for each check of the validation that rejects it.
MCRejected ==
    LET ok == MCService("v1", <<>>)
        okTask == MCTask("v1", <<>>)
        volume(size, ephemeral) == <<[name |-> "data", size |-> size, ephemeral |-> ephemeral]>>
    IN  {MCServices([ok EXCEPT !.cpu = 0]), MCServices([ok EXCEPT !.port = 0]),
         MCServices([ok EXCEPT !.memory = Bad]),
         MCServices([ok EXCEPT !.health = [rooted |-> FALSE, interval |-> 10]]),
         MCServices([ok EXCEPT !.volumes = volume(None, FALSE)]),
         MCServices([ok EXCEPT !.volumes = volume(Bad, TRUE)]),
         MCTasks([okTask EXCEPT !.timeout = Bad]),
         MCTasks([okTask EXCEPT !.env = "A" :> <<"${", "service.", "web", ".address", "}">>])}

MCFirst == MCRun \cup MCParsed \cup MCRejected

\* The texts are only parsed and resolved.
MCExplored == raw \in MCRun \cup {None}
=============================================================================
