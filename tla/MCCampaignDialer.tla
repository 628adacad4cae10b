-------------------------- MODULE MCCampaignDialer --------------------------
\* Small instances of the campaign dialer for TLC.
EXTENDS CampaignDialer, TLC

CONSTANTS c1, c2, s1, s2, s3

\* Both contacts in one campaign, or one each in two.
OneCampaign == [k \in Contacts |-> c1]
TwoCampaigns == [k \in Contacts |-> IF k = 1 THEN c1 ELSE c2]
NoOwnLimit == [c \in Campaigns |-> 0]

SlotSymmetry == Permutations(SlotIds)
=============================================================================
