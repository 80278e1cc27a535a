-------------------------- MODULE MCPromptScheduler --------------------------
\* Values of the constants of PromptScheduler for TLC. A tick is an hour (half an
\* hour where Hour = 2): the cadences are one and two hours, and of the backoff's
\* steps the ones below a tick, or not below the cadence, are left out.
EXTENDS PromptClaims, TLC

CONSTANTS fast, slow, h1, h2

MCInterval == [t \in Targets |-> IF t = slow THEN 2 * Hour ELSE Hour]
MCBackoff == <<1>>
MCHandlers == Permutations({h1, h2})
=============================================================================
