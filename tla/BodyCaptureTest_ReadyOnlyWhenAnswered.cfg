CONSTANTS
  TEST_URLS <- MCTestUrls
  Polls = 2
  Probes = 2
SPECIFICATION Spec
INVARIANT
  ReadyOnlyWhenAnswered
