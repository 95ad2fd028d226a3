\* Upstreams that fail in every way, with two redirects and bodies around a
\* bound of two; subscriptions of up to three lines; templates one or two edits
\* away from a right one.
CONSTANTS
  Worlds <- MCWorlds
  MaxRedirects <- Two
  MaxBytes <- Bytes
SPECIFICATION FairSpec
INVARIANTS TypeOK FetchIsExact SubscriptionIsRead TemplateIsInjected ManagedLineLeads
PROPERTIES EveryResourceEnds
