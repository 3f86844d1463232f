------------------------------ MODULE SdHandler ------------------------------
(***************************************************************************)
(* nrf_sdh: enabling and disabling the SoftDevice.  A request is put to    *)
(* the observers; if one is not ready the change stops there, and that     *)
(* observer has to call nrf_sdh_request_continue later, which makes the    *)
(* request again.  The steps are composed with an observer (FStorage).     *)
(***************************************************************************)

VARIABLES
  sdEnabled,    \* m_nrf_sdh_enabled
  sdContinue,   \* m_nrf_sdh_continue: a change was requested and not made
  sdSuspended   \* m_nrf_sdh_suspended: the event interrupt is masked

sdVars == <<sdEnabled, sdContinue, sdSuspended>>

SdTypeOK == sdEnabled \in BOOLEAN /\ sdContinue \in BOOLEAN /\ sdSuspended \in BOOLEAN

\* Before main asks for it the SoftDevice is disabled; a run may also start later.
SdInit ==
  /\ sdEnabled \in BOOLEAN
  /\ sdContinue = FALSE
  /\ sdSuspended = FALSE

\* nrf_sdh_enable_request when it is disabled, nrf_sdh_disable_request when
\* it is enabled: up to the call of the observers.
SdRequest == sdContinue' = TRUE /\ UNCHANGED <<sdEnabled, sdSuspended>>

\* All observers were ready and the SoftDevice did what it was asked.
SdChange ==
  /\ sdEnabled' = ~sdEnabled
  /\ sdContinue' = FALSE
  /\ sdSuspended' = IF sdEnabled THEN sdSuspended ELSE FALSE

\* sd_softdevice_enable returned an error: the request stays open.
SdEnableFails == ~sdEnabled /\ UNCHANGED sdVars

SdSuspend == sdEnabled /\ sdSuspended' = TRUE /\ UNCHANGED <<sdEnabled, sdContinue>>

SdResume ==
  /\ sdSuspended /\ sdEnabled
  /\ sdSuspended' = FALSE
  /\ UNCHANGED <<sdEnabled, sdContinue>>

\* SD_EVT_IRQHandler can run.
SdEventsFlow == sdEnabled /\ ~sdSuspended
=============================================================================
