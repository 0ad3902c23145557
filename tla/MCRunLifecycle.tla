--------------------------- MODULE MCRunLifecycle ---------------------------
(***************************************************************************)
(* One run on two orchestrator instances: the stream that creates it, a    *)
(* resume on either instance, and a request of another principal.          *)
(***************************************************************************)
EXTENDS RunLifecycle, TLC

CONSTANTS r1, q1, p1, p2, i1, i2

Handler(n, i) ==
  [id |-> n, run |-> r1, request |-> q1, principal |-> p1, instance |-> i]

Stream     == Handler("stream", i1)
Stranger   == [Handler("stranger", i2) EXCEPT !.principal = p2]
ResumeHere == Handler("resumeHere", i1)
ResumeElse == Handler("resumeElse", i2)

WithStranger        == {Stream, Stranger, ResumeElse}
StreamAndResumeHere == {Stream, ResumeHere}
Elsewhere           == {ResumeElse}
Here                == {ResumeHere}
=============================================================================
