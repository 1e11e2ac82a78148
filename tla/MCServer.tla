------------------------------ MODULE MCServer ------------------------------
(* Small instances of Server: the pools, requests and bounds of the runs. *)
EXTENDS ServerProperties

NoTags == [t \in {} |-> 0]

Pool(tags, on_demand, name) ==
  [max |-> 2, max_starting |-> 1, max_prealloc |-> 1, start_delay |-> FALSE,
   cmd_release |-> FALSE, cmd_livecheck |-> FALSE, livecheck_attempts |-> 1,
   reuse |-> FALSE, reuse_max_count |-> 0, tags |-> tags,
   tags_on_demand |-> on_demand, named_counters |-> {}, name |-> name]

Plain == [A |-> 0]
MCTags == {"A", "B", "beefy"}

(* One pool with a named counter, whose resources are not reused. *)
BaseConfig == <<[Pool(Plain, NoTags, 1) EXCEPT !.named_counters = {"port"}]>>
BaseRequests == {[tags |-> {"A"}, sandbox |-> NoSandbox]}
SharedRequests == {[tags |-> {"A"}, sandbox |-> s] : s \in Sandboxes}

(* One pool with cmd_release, whose resources may be reused for a while, ... *)
LateConfig == <<[Pool(Plain, NoTags, 1) EXCEPT !.cmd_release = TRUE, !.reuse = TRUE]>>

(* ... and one with livechecks and no reuse. *)
LivecheckConfig == <<[Pool(Plain, NoTags, 1) EXCEPT !.cmd_livecheck = TRUE,
                                                    !.livecheck_attempts = 2]>>

(* One pool with cmd_release, whose resources may be reused once. *)
ReuseConfig == <<[Pool(Plain, NoTags, 1) EXCEPT !.cmd_release = TRUE,
                                                !.reuse = TRUE,
                                                !.reuse_max_count = 1]>>
ReuseRequests == {[tags |-> {"A"}, sandbox |-> s] : s \in {NoSandbox} \cup Sandboxes}
(* The same with reuse_max_count 0, "unlimited", ... *)
UnlimitedConfig == <<[ReuseConfig[1] EXCEPT !.reuse_max_count = 0]>>

(* ... and with cmd_release but reuse_opportunity_time 0, "disabled". *)
NoReuseConfig == <<[ReuseConfig[1] EXCEPT !.reuse = FALSE]>>

(* Two on-demand pools, the first of which also serves tickets that ask    *)
(* for A.                                                                  *)
OnDemandConfig ==
  <<[Pool(Plain, [beefy |-> 0], 2) EXCEPT !.max_prealloc = 0],
    [Pool(NoTags, [beefy |-> 1], 1) EXCEPT !.max_prealloc = 0, !.max = 1]>>
OnDemandRequests == {[tags |-> {"beefy"}, sandbox |-> NoSandbox]}
MixedRequests == OnDemandRequests \cup {[tags |-> {"A", "beefy"}, sandbox |-> NoSandbox]}
=============================================================================
