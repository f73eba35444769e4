------------------------------ MODULE MCWebApp ------------------------------
(* Instances of WebApp and of PacketQueue for TLC: the two that go on for  *)
(* as long as something new comes in.  They share no variable; a behaviour *)
(* is one of the two, and the other stands still.                          *)
EXTENDS WebApp, PacketQueue

VARIABLE part

PagePart == part = "page" /\ UNCHANGED <<part, vars>>
QueuePart == part = "queue" /\ UNCHANGED <<part, webVars>>

OneTenant == [h \in Hosts |-> "t1"]

(* The other addresses are reached from these, by the user. *)
TwoAddresses ==
    /\ WebInit
    /\ app.hash \in {"/", CHOOSE h \in Hosts : TRUE}
    /\ server.known = Hosts

(* Where the page stands still it does so in one state. *)
NoPage ==
    /\ server = [up |-> TRUE, known |-> {}]
    /\ admin = FALSE /\ token = "none"
    /\ app = [Boot("/") EXCEPT !.dialog = "none"]
    /\ events = 0

MCInit ==
    /\ part \in {"page", "queue"}
    /\ IF part = "page" THEN TwoAddresses ELSE NoPage
    /\ Init

MCNext ==
    \/ PagePart /\ WebNext
    \/ QueuePart /\ Next

MCVars == <<part, webVars, vars>>

(* The fairness of WebSpec and of FairSpec.  In a behaviour at most one of *)
(* the actions under each WF can ever be taken.                            *)
MCSpec ==
    /\ MCInit /\ [][MCNext]_MCVars
    /\ WF_MCVars(\/ PagePart /\ ReplyTo({"overview"})
                 \/ QueuePart /\ (Publish \/ Signal))
    /\ WF_MCVars(\/ PagePart /\ ReplyTo({"resolve", "remove"})
                 \/ QueuePart /\ (\/ Check \/ Wait \/ Wake \/ Take
                                  \/ Dispatch \/ Finish))
    /\ WF_MCVars(PagePart /\ ReplyTo({"current"}))
    /\ WF_MCVars(PagePart /\ ReplyTo({"check", "login", "token"}))
    /\ WF_MCVars(PagePart /\ backgroundTask)
    /\ WF_MCVars(PagePart /\ RefreshAgain)
    /\ WF_MCVars(PagePart /\ checkAccessJob)
    /\ WF_MCVars(PagePart /\ onhashchange)
    /\ WF_MCVars(PagePart /\ ModuleDone)
    /\ WF_MCVars(PagePart /\ (submit \/ ReloadStuck))
    /\ WF_MCVars(PagePart /\ Recover)

(* After a spurious wake-up the conditional's counter is negative and the  *)
(* consumer polls, counting down: the run follows it this far.             *)
SpinBound == cond.queue >= -3
=============================================================================
