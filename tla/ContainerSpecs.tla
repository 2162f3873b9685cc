--------------------------- MODULE ContainerSpecs ---------------------------
(***************************************************************************)
(* What becomes of a service or task definition on its way to a process:   *)
(* validation of the raw configuration (crates/config), the environment    *)
(* and the ContainerSpec built by the primary, the OCI specification and   *)
(* the labels the secondary stores in containerd (crates/containerd), and  *)
(* the specification it recovers from those labels after a restart.        *)
(*                                                                         *)
(* Text is a sequence of tokens: "${", "}", "secret(", ")", "service.",    *)
(* ".address" and names.  A size or a duration is a number of its unit, or *)
(* Bad where the text does not parse; cpu is in hundredths.                *)
(***************************************************************************)
EXTENDS Sequencing

CONSTANTS
    None,       \* an absent option
    Bad,        \* the text of a size or duration that does not parse
    Secrets,    \* the secrets of the FSM: name -> plaintext
    Addresses,  \* the address of the services that have one: name -> text
    ImageStore  \* the images a registry can deliver: name -> image

-----------------------------------------------------------------------------
(* Configuration: crates/config/src/validate                               *)

Literal(text) == [part |-> "literal", text |-> text]
Secret(name) == [part |-> "secret", text |-> name]
ServiceAddress(name) == [part |-> "address", text |-> name]

\* The text inside ${...}: strip_prefix and strip_suffix of the two forms.
ParseInterpolationExpr(expr) ==
    LET n == Len(expr)
        inner == SubSeq(expr, 2, n - 1)
        between(p, s) == n >= 2 /\ expr[1] = p /\ expr[n] = s
        named(part) == [part |-> part, ok |-> inner # <<>>]
    IN  CASE between("secret(", ")")          -> named(Secret(inner))
          [] between("service.", ".address") -> named(ServiceAddress(inner))
          [] OTHER -> [part |-> Literal(<<"${">> \o expr \o <<"}">>), ok |-> FALSE]

\* The position of the first token t of text at or after i, 0 if there is none.
Find(text, t, i) ==
    LET at == {j \in i..Len(text) : text[j] = t}
    IN  IF at = {} THEN 0 ELSE CHOOSE j \in at : \A k \in at : j <= k

\* parse_env_value: the parts of a value and whether all of them parsed.
ParseEnvValue(text) ==
    LET rest(i) == SubSeq(text, i, Len(text))
        nonempty(t) == IF t = <<>> THEN <<>> ELSE <<Literal(t)>>
        parse[i \in 1..Len(text) + 2] ==
            LET start == Find(text, "${", i)
                end == Find(text, "}", start + 1)
                before == nonempty(SubSeq(text, i, start - 1))
                expr == ParseInterpolationExpr(SubSeq(text, start + 1, end - 1))
                after == parse[end + 1]
            IN  CASE start = 0 -> [parts |-> nonempty(rest(i)), ok |-> TRUE]
                  [] start # 0 /\ end = 0 ->
                        [parts |-> Append(before, Literal(rest(start))), ok |-> FALSE]
                  [] OTHER -> [parts |-> Append(before, expr.part) \o after.parts,
                               ok |-> expr.ok /\ after.ok]
    IN  parse[1]

EnvOk(env) == \A k \in DOMAIN env : ParseEnvValue(env[k]).ok
ParseEnvMap(env) == [k \in DOMAIN env |-> ParseEnvValue(env[k]).parts]

CheckVolume(v) == IF v.size = None THEN v.ephemeral ELSE v.size # Bad
CheckHealth(h) == h = None \/ (h.rooted /\ h.interval # Bad)

ResolveService(raw) ==
    IF /\ raw.memory # Bad /\ raw.cpu > 0 /\ raw.port > 0
       /\ EnvOk(raw.env) /\ CheckHealth(raw.health)
       /\ \A i \in DOMAIN raw.volumes : CheckVolume(raw.volumes[i])
    THEN [raw EXCEPT !.env = ParseEnvMap(@)]
    ELSE None

ResolveTask(raw) ==
    IF raw.memory # Bad /\ raw.timeout # Bad /\ raw.cpu > 0 /\ EnvOk(raw.env)
    THEN [raw EXCEPT !.env = ParseEnvMap(@)]
    ELSE None

\* check_env_refs: every referenced service is a key of the raw configuration.
RefsDefined(env, defined) ==
    \A k \in DOMAIN env : \A i \in DOMAIN env[k] :
        env[k][i].part = "address" => env[k][i].text \in {<<d>> : d \in defined}

\* resolve collects the errors of every definition: one is enough to reject.
Resolve(raw) ==
    LET services == [n \in DOMAIN raw.service |-> ResolveService(raw.service[n])]
        tasks == [n \in DOMAIN raw.task |-> ResolveTask(raw.task[n])]
        defs == Range(services) \cup Range(tasks)
    IN  IF \A d \in defs : d # None /\ RefsDefined(d.env, DOMAIN raw.service)
        THEN [services |-> services, tasks |-> tasks]
        ELSE None

-----------------------------------------------------------------------------
(* From a definition to a ContainerSpec: primary/deploy and primary/tasks  *)

Resolvable(part) ==
    CASE part.part = "literal" -> TRUE
      [] part.part = "address" -> part.text \in DOMAIN Addresses
      [] part.part = "secret"  -> part.text \in DOMAIN Secrets

Rendered(part) ==
    CASE part.part = "literal" -> part.text
      [] part.part = "address" -> Addresses[part.text]
      [] part.part = "secret"  -> Secrets[part.text]

ResolvesEnv(env) == \A k \in DOMAIN env : \A i \in DOMAIN env[k] : Resolvable(env[k][i])

ResolveEnv(env) ==
    [k \in DOMAIN env |-> Concatenated(LAMBDA i : Rendered(env[k][i]), Len(env[k]))]

\* The volumes of a definition, without their sizes.
Mounts(volumes) ==
    [i \in DOMAIN volumes |-> [name |-> volumes[i].name, ephemeral |-> volumes[i].ephemeral]]

ServiceSpec(def) ==
    [kind |-> "service", timeout |-> None, command |-> def.command, image |-> def.image,
     env |-> ResolveEnv(def.env), port |-> def.port, host_port |-> None,
     cpu |-> def.cpu, memory |-> def.memory, volumes |-> Mounts(def.volumes)]

TaskSpec(def) ==
    [kind |-> "task", timeout |-> def.timeout, command |-> def.command, image |-> def.image,
     env |-> ResolveEnv(def.env), port |-> None, host_port |-> None,
     cpu |-> def.cpu, memory |-> def.memory, volumes |-> <<>>]

\* The variables of env, and those of base it does not set.
Overlay(env, base) ==
    [k \in DOMAIN env \cup DOMAIN base |-> IF k \in DOMAIN env THEN env[k] ELSE base[k]]

\* run_container gives a spec with a port its host port, and the process PORT.
WithPort(spec, port) ==
    IF spec.port = None THEN spec
    ELSE [spec EXCEPT !.host_port = port, !.env = Overlay([k \in {"PORT"} |-> <<port>>], @)]

-----------------------------------------------------------------------------
(* The image, the OCI specification and the labels: crates/containerd      *)

\* image_info: the manifest of this platform, the chain id of its layers, the
\* default command and environment; None where the image cannot be used.
ImageInfo(name) ==
    LET image == ImageStore[name]
        config == image.manifest
    IN  IF ~image.platform \/ config.diff_ids = <<>> THEN None
        ELSE [chain_id |-> Folded(LAMBDA c, d : <<c, d>>, Head(config.diff_ids),
                                  LAMBDA i : config.diff_ids[i + 1], Len(config.diff_ids) - 1),
              default_command |-> config.entrypoint \o config.cmd,
              default_env |-> config.env]

\* What build_oci_spec fixes for the process.
BuildOciSpec(spec, info) ==
    [args |-> IF spec.command = None THEN info.default_command ELSE spec.command,
     env |-> Overlay(spec.env, info.default_env),
     cpu_quota |-> spec.cpu * 1000, memory |-> spec.memory,
     mounts |-> {[source |-> IF v.ephemeral THEN "ephemeral" ELSE "volumes",
                  name |-> v.name] : v \in Range(spec.volumes)}]

\* Optional labels are absent (None); a timeout is stored in whole seconds.
\* LabelsForget leaves the command out.
Labels(spec, command) ==
    [host_port |-> spec.host_port, cpu |-> spec.cpu, memory |-> spec.memory,
     volumes |-> IF spec.volumes = <<>> THEN None ELSE spec.volumes,
     kind |-> spec.kind,
     timeout |-> IF spec.timeout = None THEN None ELSE spec.timeout \div 1000,
     command |-> command]

BuildLabels(spec) == Labels(spec, spec.command)

\* recover_info and the placeholder spec of reconcile: no env, port 0.
Recovered(image, labels) ==
    [kind |-> labels.kind,
     timeout |-> IF labels.timeout = None THEN None ELSE labels.timeout * 1000,
     command |-> labels.command, image |-> image, env |-> <<>>,
     port |-> IF labels.host_port = None THEN None ELSE 0,
     host_port |-> labels.host_port, cpu |-> labels.cpu, memory |-> labels.memory,
     volumes |-> IF labels.volumes = None THEN <<>> ELSE labels.volumes]
=============================================================================
