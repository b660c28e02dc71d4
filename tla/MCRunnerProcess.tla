---------------------------- MODULE MCRunnerProcess ----------------------------
EXTENDS RunnerProcess

\* Two plugins, of different names or of the same one, and one without a name.
MCBuilds == { <<"say", "limit-req">>, <<"say", "say">>, <<NoName>> }
=============================================================================
